---- MODULE Spec2Model ----
(***************************************************************************)
(* Model of the zakip-voice native backend's operation lifecycle layer:    *)
(*   - the audio worker thread of audio/recorder.rs (AudioRecordingManager *)
(*     and audio_thread_main), specified by SpecActor;                     *)
(*   - the operation registry and with_abort_and_timeout of commands.rs,   *)
(*     specified by SpecWrapper.                                           *)
(***************************************************************************)
EXTENDS Integers, Sequences, FiniteSets, TLC

\* ------------------------------------------------------------------------
\* Bounds of the model
\* ------------------------------------------------------------------------
\* number of threads calling into AudioRecordingManager
NumCallers == 2
\* the capture buffer holds at most this many samples
MaxSamples == 1

Callers == 1..NumCallers
\* what SystemTime::now() can read: an earlier and a later instant, which is
\* enough for a clock that steps back and for a session id that repeats
Times == 0..1
\* session ids are formatted from the clock (uuid_simple)
SessionIds == Times
\* f32 samples in halves: 1 is 0.5
SampleValues == {1}

\* ------------------------------------------------------------------------
\* Values
\* ------------------------------------------------------------------------
None == [tag |-> "None"]
Some(v) == [tag |-> "Some", val |-> v]
Ok(v) == [tag |-> "Ok", val |-> v]
Err(kind, msg) == [tag |-> "Err", kind |-> kind, msg |-> msg]
Unit == [unit |-> TRUE]
IsErr(r) == r.tag = "Err"
IsOk(r) == r.tag = "Ok"

\* AudioRecordingError (audio/types.rs)
NoInputDevice == Err("NoInputDevice", "")
StreamInitFailed(msg) == Err("StreamInitFailed", msg)
NoActiveSession == Err("NoActiveSession", "")
SessionMismatch == Err("SessionMismatch", "")
EncodingError(msg) == Err("EncodingError", msg)

AlreadyInProgress == "Recording already in progress"
NotResponding == "Audio thread not responding"

\* what the platform does when a stream is opened: the device lookup, the
\* configuration query, build_input_stream and play can each fail
DeviceOutcomes ==
    {"ok", "no_device", "configs_err", "no_config", "build_err", "play_err"}

VARIABLES
    active_recording,   \* the worker's Option<RecordingState>
    open_streams,       \* number of live cpal::Stream handles
    queue,              \* the command channel, in send order
    worker,             \* "running" | "terminated"
    manager_alive,      \* the AudioRecordingManager has not been dropped
    caller_pc,          \* per caller: "idle" | "waiting" (blocked in rx.recv())
    caller_call,        \* per caller: the method it is executing
    resp,               \* per caller: its response channel
    overflow_checks,    \* the build panics on integer overflow (debug profile)
    event               \* what the last step did: a command processed by the
                        \* worker, a manager call returning, or nothing

actorVars == <<active_recording, open_streams, queue, worker, manager_alive,
               caller_pc, caller_call, resp, overflow_checks, event>>

\* ------------------------------------------------------------------------
\* commands.rs: the operation registry and with_abort_and_timeout
\* ------------------------------------------------------------------------
\* number of with_abort_and_timeout invocations that can run at once
NumTasks == 2

Tasks == 1..NumTasks
\* operation ids are chosen by the caller; two invocations may use the same
OpIds == {"op1", "op2"}

\* the commands that run their work under with_abort_and_timeout
Commands ==
    <<[name |-> "chat_completion", timeout_secs |-> 60,
       timeout_message |->
         "Request timeout: AI provider did not respond within 60 seconds"],
      [name |-> "local_transcribe_audio", timeout_secs |-> 300,
       timeout_message |->
         "Local transcription timeout: Operation took longer than 5 minutes"],
      [name |-> "transcribe_audio", timeout_secs |-> 60,
       timeout_message |->
         "Transcription timeout: Operation took longer than 60 seconds"],
      [name |-> "text_to_speech", timeout_secs |-> 60,
       timeout_message |->
         "Text-to-speech timeout: Operation took longer than 60 seconds"]>>

\* the message of the abort arm
AbortedByUser == "Operation aborted by user"

\* task t is the invocations made by one command
TaskCommand(t) == Commands[((t - 1) % Len(Commands)) + 1]

\* mutant: a command passes the abort message as its timeout message
timeout_message_of_abort(t) == AbortedByUser

timeout_message(t) == TaskCommand(t).timeout_message

\* what work can resolve to
ErrString(msg) == [tag |-> "Err", msg |-> msg]
WorkResults == {Ok("response"), ErrString("upstream error")}

VARIABLES
    active_operations,  \* the registry: operation id -> the task whose flag is
                        \* registered under it, 0 for no entry
    abort_flag,         \* per task: the AtomicBool its invocation created
    task_pc,            \* "idle" (no invocation) | "registered" (select! not
                        \* polled yet) | "racing" | "resolved"
    operation_id,       \* per task: the id it was invoked with
    work,               \* per task: the operation future is "pending" or
                        \* "ready" to complete when polled
    timer,              \* per task: "pending" | "elapsed" (the timeout sleep)
    poll,               \* per task: the abort loop is at its flag "check" or
                        \* "sleeping" for the poll interval
    result,             \* per task: what the select! produced
    winner,             \* per task: the arm that produced it (history)
    work_result,        \* per task: what the operation future returned, None
                        \* if it was dropped unfinished (history)
    op_event            \* what the last step did: an abort_operation call, a
                        \* wrapper returning, or nothing

wrapperVars == <<active_operations, abort_flag, task_pc, operation_id,
                 work, timer, poll, result, winner, work_result, op_event>>

\* ------------------------------------------------------------------------
\* commands.rs: chat_completion_stream, the streaming relay
\* ------------------------------------------------------------------------
\* number of streaming operations
NumStreams == 1
\* a provider stream yields at most this many items before it ends
MaxItems == 3

Streams == 1..NumStreams
\* the session_id argument, which names the registry entry and the events
StreamIds == {"s1", "s2"}
\* the content of a StreamChunk
Fragments == {"A", "B"}

VARIABLES
    stream_operations,  \* the registry: session id -> the stream whose flag is
                        \* registered under it, 0 for no entry
    stream_flag,        \* per stream: the AtomicBool its command created
    stream_pc,          \* "idle" | "establishing" | "consuming" |
                        \* "forwarding" | "unregistering" | "finished"
    stream_id,          \* per stream: its session_id
    received,           \* per stream: what stream.next() returned, in order
    emitted,            \* per stream: the events passed to app.emit that were
                        \* delivered, in order
    removed,            \* per stream: number of ops.remove(session_id) calls
    cause,              \* per stream: the path by which the task ended
    after_abort         \* per stream: the content events emitted while its
                        \* flag was set

streamVars == <<stream_operations, stream_flag, stream_pc, stream_id,
                received, emitted, removed, cause, after_abort>>

\* ------------------------------------------------------------------------
\* the sample path: input callback, encode_wav, wav_to_f32_samples
\* ------------------------------------------------------------------------
\* a callback block or a recording has at most this many samples
MaxBlock == 4

\* f32 samples in halves, from -1.5 to 1.5
SampleGrid == -3..3
\* mono and stereo input
ChannelCounts == {1, 2}
SampleRates == {16000, 48000}

VARIABLES
    block,              \* the samples given: a callback's data, or a recording
    nchannels,          \* the channel count of the stream configuration
    rate,               \* the sample rate of the session
    buffer,             \* what the callback appended to an empty buffer
    encoded,                \* what encode_wav returned for block
    decoded             \* what wav_to_f32_samples returned for encoded

codecVars == <<block, nchannels, rate, buffer, encoded, decoded>>

\* ------------------------------------------------------------------------
\* the capture buffer shared by the input callback and the Stop path
\* ------------------------------------------------------------------------
\* the capture buffer holds at most this many samples
MaxCapture == 2

VARIABLES
    capture_pc,         \* "none" | "recording" | "halted" | "stopped"
    capture_session,    \* the RecordingState's session and samples, or None
    samples_buffer,     \* the Vec behind samples_buffer: Arc<Mutex<Vec<f32>>>
    samples_poisoned,   \* a thread panicked holding the samples_buffer guard
    last_emit_poisoned, \* a thread panicked holding the last_emit_time guard
    app_handle,         \* whether start_recording was given an AppHandle
    stream_alive,       \* the backend still invokes the callback
    halted_with,        \* the buffer's contents when state.stream was dropped
    stop_outcome,       \* what stop_recording_internal returned, or None
    capture_event       \* the last step of the callback or of Stop

bufferVars == <<capture_pc, capture_session, samples_buffer, samples_poisoned,
                last_emit_poisoned, app_handle, stream_alive, halted_with,
                stop_outcome, capture_event>>

\* ------------------------------------------------------------------------
\* the RwLock around active_operations
\* ------------------------------------------------------------------------
\* operations that register and unregister an id
NumLockOps == 3
LockOps == 1..NumLockOps

VARIABLES
    lock_writer,        \* the operation holding the write guard, or 0
    lock_readers,       \* the number of read guards held
    lock_pc,            \* per operation: where it is between the guards
    lock_kind,          \* per operation: "wrapper" | "stream" | "none"
    abort_pc            \* abort_operation: "idle" | "reading"

lockVars == <<lock_writer, lock_readers, lock_pc, lock_kind, abort_pc>>

\* ------------------------------------------------------------------------
\* audio/recorder.rs: the negotiation of the stream configuration
\* ------------------------------------------------------------------------
\* the device offers at most this many configurations
MaxConfigs == 2

VARIABLES
    supported_configs,  \* what device.supported_input_configs() yields, in order
    requested,          \* the channels and sample_rate of the AudioRecordingConfig
    negotiation         \* the configuration and rate chosen, an error, or None

negotiateVars == <<supported_configs, requested, negotiation>>

\* ------------------------------------------------------------------------
\* local_models/manager.rs: the downloads of LocalModelManager
\* ------------------------------------------------------------------------
\* concurrent callers of download_model, and the chunks of a model's body
NumDownloads == 2
MaxChunks == 2

VARIABLES
    downloading,        \* the HashSet of model ids being downloaded
    files,              \* models_dir: path -> contents, None for no file
    dl_pc,              \* per caller: "idle" | "requesting" | "writing" | "removing"
    dl_model,           \* per caller: the model_id of its call
    dl_result,          \* per caller: what download_file returned, or None
    fetched,            \* per caller: the chunks its stream has yielded
    dl_event            \* the last step of the downloads

downloadVars == <<downloading, files, dl_pc, dl_model, dl_result, fetched, dl_event>>

\* ------------------------------------------------------------------------
\* secure_storage.rs: SecureStorage, its file and its cache
\* ------------------------------------------------------------------------
\* concurrent callers of SecureStorage
NumStorageCalls == 2

VARIABLES
    stored,             \* the credentials in the storage file: key -> value or None
    cache,              \* the HashMap behind the Mutex: key -> value or None
    st_pc,              \* per caller: "idle" | "loading" | "saving" | "caching"
    st_call,            \* per caller: the method, key and value of its call
    credentials,        \* per caller: the map its call loaded and changed
    latest,             \* per key: the value of the last completed set, None after a completed delete
    overlapped,         \* whether a call has begun while another was running
    torn,               \* whether a failed write has emptied the file
    st_event            \* the last step of the storage

storageVars == <<stored, cache, st_pc, st_call, credentials, latest, overlapped, torn, st_event>>

vars == <<actorVars, wrapperVars, streamVars, codecVars, bufferVars, lockVars,
         negotiateVars,
         downloadVars,
         storageVars>>

\* ------------------------------------------------------------------------
\* audio/recorder.rs: the worker's command handlers
\* ------------------------------------------------------------------------
Bool(b) == [tag |-> "bool", val |-> b]

Min(a, b) == IF a < b THEN a ELSE b
Max(a, b) == IF a > b THEN a ELSE b

\* mutant: the scaled sample is not clamped
SampleToI16_unclamped(n) ==
    IF n >= 0 THEN (n * 32767) \div 2 ELSE -(((-n) * 32767) \div 2)

\* (sample * 32767.0).clamp(-32768.0, 32767.0) as i16, truncating toward zero
SampleToI16(n) ==
    LET scaled == IF n >= 0 THEN (n * 32767) \div 2
                  ELSE -(((-n) * 32767) \div 2)
    IN  Max(-32768, Min(32767, scaled))

\* encode_wav: 16-bit integer PCM, one value per sample; enc_ok is whether
\* the hound writer reported no error
encode_wav(samples, sample_rate, channels, enc_ok) ==
    IF enc_ok
    THEN Ok([bits_per_sample |-> 16, channels |-> channels,
             sample_rate |-> sample_rate,
             data |-> [i \in 1..Len(samples) |-> SampleToI16(samples[i])]])
    ELSE EncodingError("hound")

\* the negotiated sample rate is left abstract here
DefaultSampleRate == 48000

Outcome(active, open, reply, panicked) ==
    [active |-> active, open |-> open, result |-> reply, panicked |-> panicked]

\* mutant: the stream that failed to play stays open
open_stream_kept_on_play_error(active, open, dev, t) ==
    CASE dev = "no_device" -> Outcome(active, open, NoInputDevice, FALSE)
      [] dev = "configs_err" ->
           Outcome(active, open, StreamInitFailed("supported_input_configs"), FALSE)
      [] dev = "no_config" ->
           Outcome(active, open,
                   StreamInitFailed("No suitable audio config found"), FALSE)
      [] dev = "build_err" ->
           Outcome(active, open, StreamInitFailed("build_input_stream"), FALSE)
      [] dev = "play_err" ->
           Outcome(active, open + 1, StreamInitFailed("play"), FALSE)
      [] OTHER ->
           LET session == [session_id |-> t, started_at |-> t,
                           sample_rate |-> DefaultSampleRate]
           IN  Outcome(Some([session |-> session, samples |-> <<>>]),
                       (IF active = None THEN open ELSE open - 1) + 1,
                       Ok(session), FALSE)

\* start_recording_internal after its "already recording" check: open the
\* default device, negotiate a configuration, build and play the stream.
\* dev is the platform's behaviour; t is what SystemTime::now() reads
OpenStream(active, open, dev, t) ==
    CASE dev = "no_device" -> Outcome(active, open, NoInputDevice, FALSE)
      [] dev = "configs_err" ->
           Outcome(active, open, StreamInitFailed("supported_input_configs"), FALSE)
      [] dev = "no_config" ->
           Outcome(active, open,
                   StreamInitFailed("No suitable audio config found"), FALSE)
      [] dev = "build_err" ->
           Outcome(active, open, StreamInitFailed("build_input_stream"), FALSE)
      \* the stream was built and is dropped again when play fails
      [] dev = "play_err" ->
           Outcome(active, open, StreamInitFailed("play"), FALSE)
      \* *active_recording = Some(..) drops the state it replaces
      [] OTHER ->
           LET session == [session_id |-> t, started_at |-> t,
                           sample_rate |-> DefaultSampleRate]
           IN  Outcome(Some([session |-> session, samples |-> <<>>]),
                       (IF active = None THEN open ELSE open - 1) + 1,
                       Ok(session), FALSE)

\* mutant: the "already recording" check is missing
start_recording_unchecked(active, open, dev, t) ==
    OpenStream(active, open, dev, t)

start_recording_internal(active, open, dev, t) ==
    IF active # None
    THEN Outcome(active, open, StreamInitFailed(AlreadyInProgress), FALSE)
    ELSE OpenStream(active, open, dev, t)

\* mutant: a mismatching session id does not put the state back
stop_recording_no_put_back(active, open, session_id, t, enc_ok, checks) ==
    IF active = None
    THEN Outcome(None, open, NoActiveSession, FALSE)
    ELSE IF active.val.session.session_id # session_id
         THEN Outcome(None, open - 1, SessionMismatch, FALSE)
         ELSE Outcome(None, open - 1, Ok(Unit), FALSE)

\* stop_recording_internal; t is what SystemTime::now() reads and checks is
\* the build's overflow checking
stop_recording_internal(active, open, session_id, t, enc_ok, checks) ==
    IF active = None
    THEN Outcome(None, open, NoActiveSession, FALSE)
    ELSE LET state == active.val IN
         IF state.session.session_id # session_id
         THEN Outcome(Some(state), open, SessionMismatch, FALSE)
         ELSE \* drop(state.stream), then now - started_at in u64
              IF t < state.session.started_at /\ checks
              THEN Outcome(None, open - 1, None, TRUE)
              ELSE LET duration_ms ==
                           IF t >= state.session.started_at
                           THEN [wrapped |-> FALSE, ms |-> t - state.session.started_at]
                           ELSE [wrapped |-> TRUE, ms |-> t - state.session.started_at]
                       wav == encode_wav(state.samples, state.session.sample_rate,
                                         1, enc_ok)
                   IN  Outcome(None, open - 1,
                               IF IsErr(wav) THEN wav
                               ELSE Ok([session_id |-> session_id,
                                        duration_ms |-> duration_ms,
                                        audio_data |-> wav.val,
                                        sample_rate |-> state.session.sample_rate]),
                               FALSE)

\* mutant: Cancel answers Ok without taking the session
cancel_recording_keeps_session(active, open, session_id) ==
    IF active = None
    THEN Outcome(None, open, NoActiveSession, FALSE)
    ELSE IF active.val.session.session_id # session_id
         THEN Outcome(active, open, SessionMismatch, FALSE)
         ELSE Outcome(active, open, Ok(Unit), FALSE)

cancel_recording_internal(active, open, session_id) ==
    IF active = None
    THEN Outcome(None, open, NoActiveSession, FALSE)
    ELSE LET state == active.val IN
         IF state.session.session_id # session_id
         THEN Outcome(Some(state), open, SessionMismatch, FALSE)
         ELSE Outcome(None, open - 1, Ok(Unit), FALSE)

\* mutant: the session is reported but not taken
force_reset_keeps_session(active, open) ==
    Outcome(active, open, Bool(active # None), FALSE)

\* the ForceReset arm of audio_thread_main
force_reset_internal(active, open) ==
    LET had_recording == active # None
    IN  Outcome(None, IF had_recording THEN open - 1 ELSE open,
                Bool(had_recording), FALSE)

\* ------------------------------------------------------------------------
\* Channels
\* ------------------------------------------------------------------------
Empty == [tag |-> "empty"]
Closed == [tag |-> "closed"]
Msg(v) == [tag |-> "msg", val |-> v]

Command(kind, caller, session_id) ==
    [kind |-> kind, caller |-> caller, session_id |-> session_id]

\* the callers whose command sits in the queue
Queued == {queue[i].caller : i \in 1..Len(queue)} \ {0}

NoEvent == [type |-> "none"]
\* a manager method returns value to its caller; answered is whether the
\* worker replied to the command
Return(c, call, value, answered) ==
    [type |-> "return", caller |-> c, call |-> call, value |-> value,
     answered |-> answered]

\* ------------------------------------------------------------------------
\* AudioRecordingManager: a method sends its command, then blocks in recv()
\* ------------------------------------------------------------------------
SendFailed(kind) ==
    IF kind = "ForceReset" THEN Bool(FALSE) ELSE StreamInitFailed(NotResponding)

\* mutant: the command is put in front of the waiting ones
SendFirst(c, kind, session_id) ==
    /\ caller_pc[c] = "idle"
    /\ IF worker = "running"
       THEN /\ queue' = <<Command(kind, c, session_id)>> \o queue
            /\ caller_pc' = [caller_pc EXCEPT ![c] = "waiting"]
            /\ caller_call' = [caller_call EXCEPT ![c] = kind]
            /\ resp' = [resp EXCEPT ![c] = Empty]
            /\ event' = NoEvent
       ELSE /\ event' = Return(c, kind, SendFailed(kind), FALSE)
            /\ UNCHANGED <<queue, caller_pc, caller_call, resp>>
    /\ UNCHANGED <<active_recording, open_streams, worker, manager_alive,
                   overflow_checks>>
    /\ UNCHANGED <<wrapperVars, streamVars, codecVars, bufferVars, lockVars,
                   negotiateVars,
                   downloadVars,
                   storageVars>>

\* command_sender.send(..): fails when the receiver is gone
Send(c, kind, session_id) ==
    /\ caller_pc[c] = "idle"
    /\ IF worker = "running"
       THEN /\ queue' = Append(queue, Command(kind, c, session_id))
            /\ caller_pc' = [caller_pc EXCEPT ![c] = "waiting"]
            /\ caller_call' = [caller_call EXCEPT ![c] = kind]
            /\ resp' = [resp EXCEPT ![c] = Empty]
            /\ event' = NoEvent
       ELSE /\ event' = Return(c, kind, SendFailed(kind), FALSE)
            /\ UNCHANGED <<queue, caller_pc, caller_call, resp>>
    /\ UNCHANGED <<active_recording, open_streams, worker, manager_alive,
                   overflow_checks>>
    /\ UNCHANGED <<wrapperVars, streamVars, codecVars, bufferVars, lockVars,
                   negotiateVars,
                   downloadVars,
                   storageVars>>

\* the methods borrow the manager (&self)
start_recording(c) ==
    /\ manager_alive
    /\ Send(c, "StartRecording", 0)

stop_recording(c) ==
    /\ manager_alive
    /\ \E session_id \in SessionIds : Send(c, "StopRecording", session_id)

cancel_recording(c) ==
    /\ manager_alive
    /\ \E session_id \in SessionIds : Send(c, "CancelRecording", session_id)

force_reset(c) ==
    /\ manager_alive
    /\ Send(c, "ForceReset", 0)

\* rx.recv() returns: the reply, or Err when the sender was dropped unsent
Received(kind, channel) ==
    IF channel.tag = "msg" THEN channel.val ELSE SendFailed(kind)

Recv(c) ==
    /\ caller_pc[c] = "waiting"
    /\ resp[c] # Empty
    /\ event' = Return(c, caller_call[c], Received(caller_call[c], resp[c]),
                       resp[c].tag = "msg")
    /\ caller_pc' = [caller_pc EXCEPT ![c] = "idle"]
    /\ caller_call' = [caller_call EXCEPT ![c] = "none"]
    /\ resp' = [resp EXCEPT ![c] = Empty]
    /\ UNCHANGED <<active_recording, open_streams, queue, worker, manager_alive,
                   overflow_checks>>
    /\ UNCHANGED <<wrapperVars, streamVars, codecVars, bufferVars, lockVars,
                   negotiateVars,
                   downloadVars,
                   storageVars>>

\* Drop for AudioRecordingManager: no call borrows the manager any more
DropManager ==
    /\ manager_alive
    /\ \A c \in Callers : caller_pc[c] = "idle"
    /\ manager_alive' = FALSE
    /\ queue' = IF worker = "running"
                THEN Append(queue, Command("Shutdown", 0, 0)) ELSE queue
    /\ event' = NoEvent
    /\ UNCHANGED <<active_recording, open_streams, worker, caller_pc,
                   caller_call, resp, overflow_checks>>
    /\ UNCHANGED <<wrapperVars, streamVars, codecVars, bufferVars, lockVars,
                   negotiateVars,
                   downloadVars,
                   storageVars>>

\* ------------------------------------------------------------------------
\* audio_thread_main: one command at a time, in send order
\* ------------------------------------------------------------------------
\* the thread ends: its state, the receiver and every queued command with its
\* response sender are dropped
Terminate(failed) ==
    /\ worker' = "terminated"
    /\ queue' = <<>>
    /\ resp' = [c \in Callers |->
                 IF c \in (Queued \cup failed) /\ caller_pc[c] = "waiting"
                    /\ resp[c] = Empty
                 THEN Closed ELSE resp[c]]

Record(cmd, out) ==
    [type |-> "processed", kind |-> cmd.kind, caller |-> cmd.caller,
     session_id |-> cmd.session_id, before |-> active_recording,
     after |-> out.active, result |-> out.result, panicked |-> out.panicked]

\* mutant: one response channel is shared, the reply goes to its first user
ProcessSharedChannel(cmd, out) ==
    /\ active_recording' = out.active
    /\ open_streams' = out.open
    /\ event' = Record(cmd, out)
    /\ IF out.panicked
       THEN Terminate({cmd.caller})
       ELSE /\ queue' = Tail(queue)
            /\ resp' = [resp EXCEPT ![1] = Msg(out.result)]
            /\ UNCHANGED worker
    /\ UNCHANGED <<manager_alive, caller_pc, caller_call, overflow_checks>>
    /\ UNCHANGED <<wrapperVars, streamVars, codecVars, bufferVars, lockVars,
                   negotiateVars,
                   downloadVars,
                   storageVars>>

\* mutant: the result of response.send is unwrapped, a dropped receiver
\* ends the thread
ProcessSendUnwrapped(cmd, out) ==
    /\ active_recording' = out.active
    /\ open_streams' = out.open
    /\ event' = Record(cmd, out)
    /\ IF out.panicked \/ cmd.caller \notin Callers
       THEN Terminate({cmd.caller})
       ELSE /\ queue' = Tail(queue)
            /\ resp' = [resp EXCEPT ![cmd.caller] = Msg(out.result)]
            /\ UNCHANGED worker
    /\ UNCHANGED <<manager_alive, caller_pc, caller_call, overflow_checks>>
    /\ UNCHANGED <<wrapperVars, streamVars, codecVars, bufferVars, lockVars,
                   negotiateVars,
                   downloadVars,
                   storageVars>>

\* let _ = response.send(result): the reply reaches the receiver of the
\* command, or is discarded when that receiver was dropped (caller 0)
send_reply(channels, caller, value) ==
    IF caller \in Callers
    THEN [channels EXCEPT ![caller] = Msg(value)]
    ELSE channels

Process(cmd, out) ==
    /\ active_recording' = out.active
    /\ open_streams' = out.open
    /\ event' = Record(cmd, out)
    /\ IF out.panicked
       THEN Terminate({cmd.caller})
       ELSE /\ queue' = Tail(queue)
            /\ resp' = send_reply(resp, cmd.caller, out.result)
            /\ UNCHANGED worker
    /\ UNCHANGED <<manager_alive, caller_pc, caller_call, overflow_checks>>
    /\ UNCHANGED <<wrapperVars, streamVars, codecVars, bufferVars, lockVars,
                   negotiateVars,
                   downloadVars,
                   storageVars>>

Receives(kind) ==
    /\ worker = "running"
    /\ queue # <<>>
    /\ Head(queue).kind = kind

WorkerStart ==
    /\ Receives("StartRecording")
    /\ \E dev \in DeviceOutcomes, now \in Times :
         Process(Head(queue),
                 start_recording_internal(active_recording, open_streams, dev, now))

WorkerStop ==
    /\ Receives("StopRecording")
    /\ \E enc_ok \in BOOLEAN, now \in Times :
         Process(Head(queue),
                 stop_recording_internal(active_recording, open_streams,
                                         Head(queue).session_id, now, enc_ok,
                                         overflow_checks))

WorkerCancel ==
    /\ Receives("CancelRecording")
    /\ Process(Head(queue),
               cancel_recording_internal(active_recording, open_streams,
                                         Head(queue).session_id))

WorkerForceReset ==
    /\ Receives("ForceReset")
    /\ Process(Head(queue), force_reset_internal(active_recording, open_streams))

\* Shutdown, or recv() failing because every sender is gone
WorkerExit ==
    /\ worker = "running"
    /\ \/ queue # <<>> /\ Head(queue).kind = "Shutdown"
       \/ queue = <<>> /\ ~manager_alive
    /\ Terminate({})
    /\ active_recording' = None
    /\ open_streams' = 0
    /\ event' = NoEvent
    /\ UNCHANGED <<manager_alive, caller_pc, caller_call, overflow_checks>>
    /\ UNCHANGED <<wrapperVars, streamVars, codecVars, bufferVars, lockVars,
                   negotiateVars,
                   downloadVars,
                   storageVars>>

audio_thread_main ==
    \/ WorkerStart
    \/ WorkerStop
    \/ WorkerCancel
    \/ WorkerForceReset
    \/ WorkerExit

\* the cpal input callback of the open stream appends to the shared buffer
Callback ==
    /\ open_streams > 0
    /\ active_recording # None
    /\ Len(active_recording.val.samples) < MaxSamples
    /\ \E s \in SampleValues :
         active_recording' =
            Some([active_recording.val EXCEPT !.samples = Append(@, s)])
    /\ event' = NoEvent
    /\ UNCHANGED <<open_streams, queue, worker, manager_alive, caller_pc,
                   caller_call, resp, overflow_checks>>
    /\ UNCHANGED <<wrapperVars, streamVars, codecVars, bufferVars, lockVars,
                   negotiateVars,
                   downloadVars,
                   storageVars>>

\* queued commands whose receiver may be gone at the same time
MaxDropped == 1

\* the queued commands that carry a response sender without a receiver
Orphans ==
    {i \in 1..Len(queue) : queue[i].caller = 0 /\ queue[i].kind # "Shutdown"}

\* the receiver of a queued command is dropped before the worker replies:
\* the thread blocked in rx.recv() is gone, its command stays in the queue
\* with a response sender that has no receiver. No method of the manager
\* does this itself; it is a step of the environment
DropReceiver(c) ==
    /\ caller_pc[c] = "waiting"
    /\ resp[c] = Empty
    /\ c \in Queued
    /\ Cardinality(Orphans) < MaxDropped
    /\ queue' = [i \in 1..Len(queue) |->
                   IF queue[i].caller = c
                   THEN [queue[i] EXCEPT !.caller = 0] ELSE queue[i]]
    /\ caller_pc' = [caller_pc EXCEPT ![c] = "idle"]
    /\ caller_call' = [caller_call EXCEPT ![c] = "none"]
    /\ event' = [type |-> "dropped", caller |-> c]
    /\ UNCHANGED <<active_recording, open_streams, worker, manager_alive, resp,
                   overflow_checks>>
    /\ UNCHANGED <<wrapperVars, streamVars, codecVars, bufferVars, lockVars,
                   negotiateVars,
                   downloadVars,
                   storageVars>>

NextActor ==
    \/ \E c \in Callers : start_recording(c)
    \/ \E c \in Callers : stop_recording(c)
    \/ \E c \in Callers : cancel_recording(c)
    \/ \E c \in Callers : force_reset(c)
    \/ \E c \in Callers : Recv(c)
    \/ DropManager
    \/ audio_thread_main
    \/ Callback

NextActorDrop ==
    \/ NextActor
    \/ \E c \in Callers : DropReceiver(c)

\* ------------------------------------------------------------------------
\* with_abort_and_timeout
\* ------------------------------------------------------------------------
\* mutant: the flag is created but not inserted before the race starts
RegisterWithoutInsert(t) ==
    /\ task_pc[t] = "idle"
    /\ \E id \in OpIds :
         operation_id' = [operation_id EXCEPT ![t] = id]
    /\ abort_flag' = [abort_flag EXCEPT ![t] = FALSE]
    /\ task_pc' = [task_pc EXCEPT ![t] = "registered"]
    /\ op_event' = NoEvent
    /\ UNCHANGED <<actorVars, streamVars, codecVars, bufferVars, lockVars,
                   negotiateVars,
                   downloadVars,
                   storageVars>>
    /\ UNCHANGED <<active_operations, work, timer, poll, result, winner,
                   work_result>>

\* lines 33-37: a fresh flag is inserted under the id, replacing any entry
Register(t) ==
    /\ task_pc[t] = "idle"
    /\ \E id \in OpIds :
         /\ operation_id' = [operation_id EXCEPT ![t] = id]
         /\ active_operations' = [active_operations EXCEPT ![id] = t]
    /\ abort_flag' = [abort_flag EXCEPT ![t] = FALSE]
    /\ task_pc' = [task_pc EXCEPT ![t] = "registered"]
    /\ op_event' = NoEvent
    /\ UNCHANGED <<actorVars, streamVars, codecVars, bufferVars, lockVars,
                   negotiateVars,
                   downloadVars,
                   storageVars>>
    /\ UNCHANGED <<work, timer, poll, result, winner, work_result>>

\* the operation future can complete: its next poll returns its result
WorkCompletes(t) ==
    /\ task_pc[t] \in {"registered", "racing"}
    /\ work[t] = "pending"
    /\ work' = [work EXCEPT ![t] = "ready"]
    /\ op_event' = NoEvent
    /\ UNCHANGED <<actorVars, streamVars, codecVars, bufferVars, lockVars,
                   negotiateVars,
                   downloadVars,
                   storageVars>>
    /\ UNCHANGED <<active_operations, abort_flag, task_pc, operation_id,
                   timer, poll, result, winner, work_result>>

\* the deadline of sleep(timeout_secs) passes
TimerElapses(t) ==
    /\ task_pc[t] = "racing"
    /\ timer[t] = "pending"
    /\ timer' = [timer EXCEPT ![t] = "elapsed"]
    /\ op_event' = NoEvent
    /\ UNCHANGED <<actorVars, streamVars, codecVars, bufferVars, lockVars,
                   negotiateVars,
                   downloadVars,
                   storageVars>>
    /\ UNCHANGED <<active_operations, abort_flag, task_pc, operation_id,
                   work, poll, result, winner, work_result>>

\* the 100 ms sleep of the abort loop ends: the loop is back at its check
PollSleepElapses(t) ==
    /\ task_pc[t] = "racing"
    /\ poll[t] = "sleeping"
    /\ poll' = [poll EXCEPT ![t] = "check"]
    /\ op_event' = NoEvent
    /\ UNCHANGED <<actorVars, streamVars, codecVars, bufferVars, lockVars,
                   negotiateVars,
                   downloadVars,
                   storageVars>>
    /\ UNCHANGED <<active_operations, abort_flag, task_pc, operation_id,
                   work, timer, result, winner, work_result>>

\* mutant: the flag is loaded once, before the loop
AbortObservedOnce(t) == FALSE

\* lines 46-51: the abort loop breaks when its check loads a set flag
AbortObserved(t) == poll[t] = "check" /\ abort_flag[t]

\* the branches of the select! that are ready when it is polled
ReadyBranches(t) ==
    (IF work[t] = "ready" THEN {"work"} ELSE {})
    \cup (IF timer[t] = "elapsed" THEN {"timeout"} ELSE {})
    \cup (IF AbortObserved(t) THEN {"abort"} ELSE {})

\* mutant: the timeout arm reports the abort message
BranchResultSwapped(t, branch, res) ==
    CASE branch = "work" -> res
      [] branch = "timeout" -> ErrString(AbortedByUser)
      [] OTHER -> ErrString(AbortedByUser)

\* mutant: an error of work is reported as an abort
BranchResultMasksError(t, branch, res) ==
    CASE branch = "work" ->
           IF res.tag = "Err" THEN ErrString(AbortedByUser) ELSE res
      [] branch = "timeout" -> ErrString(timeout_message(t))
      [] OTHER -> ErrString(AbortedByUser)

\* lines 41-54: what each arm of the select! evaluates to; res is what the
\* operation future returns
BranchResult(t, branch, res) ==
    CASE branch = "work" -> res
      [] branch = "timeout" -> ErrString(timeout_message(t))
      [] OTHER -> ErrString(AbortedByUser)

\* the task is polled: select! polls its branches from a random one on and
\* takes the first that is ready; with none ready the abort loop, if at its
\* check, goes to sleep. The first poll starts the two sleeps
Select(t) ==
    /\ task_pc[t] \in {"registered", "racing"}
    /\ IF ReadyBranches(t) = {}
       THEN /\ poll[t] = "check"
            /\ poll' = [poll EXCEPT ![t] = "sleeping"]
            /\ task_pc' = [task_pc EXCEPT ![t] = "racing"]
            /\ UNCHANGED <<timer, result, winner, work_result>>
       \* the select! is over: the two sleeps are dropped
       ELSE /\ \E branch \in ReadyBranches(t) :
                 /\ \E res \in (IF branch = "work" THEN WorkResults ELSE {None}) :
                      /\ result' =
                            [result EXCEPT ![t] = BranchResult(t, branch, res)]
                      /\ work_result' = [work_result EXCEPT ![t] = res]
                 /\ winner' = [winner EXCEPT ![t] = branch]
            /\ task_pc' = [task_pc EXCEPT ![t] = "resolved"]
            /\ timer' = [timer EXCEPT ![t] = "pending"]
            /\ poll' = [poll EXCEPT ![t] = "check"]
    /\ op_event' = NoEvent
    /\ UNCHANGED <<actorVars, streamVars, codecVars, bufferVars, lockVars,
                   negotiateVars,
                   downloadVars,
                   storageVars>>
    /\ UNCHANGED <<active_operations, abort_flag, operation_id, work>>

\* the invocation is over: its futures, its flag and its arguments are gone
Returned(t, registry) ==
    /\ active_operations' = registry
    /\ task_pc' = [task_pc EXCEPT ![t] = "idle"]
    /\ abort_flag' = [abort_flag EXCEPT ![t] = FALSE]
    /\ operation_id' = [operation_id EXCEPT ![t] = "none"]
    /\ work' = [work EXCEPT ![t] = "pending"]
    /\ timer' = [timer EXCEPT ![t] = "pending"]
    /\ poll' = [poll EXCEPT ![t] = "check"]
    /\ result' = [result EXCEPT ![t] = None]
    /\ winner' = [winner EXCEPT ![t] = "none"]
    /\ work_result' = [work_result EXCEPT ![t] = None]
    /\ op_event' = [type |-> "return", id |-> operation_id[t],
                    value |-> result[t]]
    /\ UNCHANGED <<actorVars, streamVars, codecVars, bufferVars, lockVars,
                   negotiateVars,
                   downloadVars,
                   storageVars>>

\* mutant: an error result returns before the entry is removed
CleanupOnSuccessOnly(t) ==
    /\ task_pc[t] = "resolved"
    /\ Returned(t, IF result[t].tag = "Ok"
                   THEN [active_operations EXCEPT ![operation_id[t]] = 0]
                   ELSE active_operations)

\* mutant: the entry is removed only if it holds the invocation's own flag
CleanupOwnEntry(t) ==
    /\ task_pc[t] = "resolved"
    /\ Returned(t, IF active_operations[operation_id[t]] = t
                   THEN [active_operations EXCEPT ![operation_id[t]] = 0]
                   ELSE active_operations)

\* lines 57-63: the entry under the id is removed and the result returned
Cleanup(t) ==
    /\ task_pc[t] = "resolved"
    /\ Returned(t, [active_operations EXCEPT ![operation_id[t]] = 0])

\* mutant: an unknown id gets an entry whose flag is set
SignalOrInsert(registry, flags, id) ==
    [registry |-> IF registry[id] = 0 THEN [registry EXCEPT ![id] = 1]
                  ELSE registry,
     flags |-> [flags EXCEPT ![IF registry[id] = 0 THEN 1 ELSE registry[id]] = TRUE],
     value |-> Ok(Unit)]

\* mutant: every registered flag is set when the id is found
SignalEveryFlag(registry, flags, id) ==
    [registry |-> registry,
     flags |-> IF registry[id] # 0
               THEN [t \in DOMAIN flags |->
                       flags[t] \/ (\E other \in DOMAIN registry :
                                       registry[other] = t)]
               ELSE flags,
     value |-> Ok(Unit)]

\* abort_operation on a registry: the flag under id is set if there is one
Signal(registry, flags, id) ==
    [registry |-> registry,
     flags |-> IF registry[id] # 0
               THEN [flags EXCEPT ![registry[id]] = TRUE] ELSE flags,
     value |-> Ok(Unit)]

abort_operation(id) ==
    LET out == Signal(active_operations, abort_flag, id) IN
    /\ active_operations' = out.registry
    /\ abort_flag' = out.flags
    /\ op_event' = [type |-> "abort", id |-> id,
                    found |-> active_operations[id] # 0, value |-> out.value]
    /\ UNCHANGED <<task_pc, operation_id, work, timer, poll, result, winner, work_result>>
    /\ UNCHANGED <<actorVars, streamVars, codecVars, bufferVars, lockVars,
                   negotiateVars,
                   downloadVars,
                   storageVars>>

\* the invocation is abandoned while the select! is pending: its future is
\* dropped, or a panic unwinds out of the poll of work. Lines 57-63 are not
\* reached and nothing else of the wrapper runs on that path
Abandon(t) ==
    /\ task_pc[t] \in {"registered", "racing"}
    /\ task_pc' = [task_pc EXCEPT ![t] = "idle"]
    /\ abort_flag' = [abort_flag EXCEPT ![t] = FALSE]
    /\ operation_id' = [operation_id EXCEPT ![t] = "none"]
    /\ work' = [work EXCEPT ![t] = "pending"]
    /\ timer' = [timer EXCEPT ![t] = "pending"]
    /\ poll' = [poll EXCEPT ![t] = "check"]
    /\ op_event' = [type |-> "abandon", id |-> operation_id[t], task |-> t]
    /\ UNCHANGED <<active_operations, result, winner, work_result>>
    /\ UNCHANGED <<actorVars, streamVars, codecVars, bufferVars, lockVars,
                   negotiateVars,
                   downloadVars,
                   storageVars>>

NextWrapper ==
    \/ \E t \in Tasks : Register(t)
    \/ \E t \in Tasks : WorkCompletes(t)
    \/ \E t \in Tasks : TimerElapses(t)
    \/ \E t \in Tasks : PollSleepElapses(t)
    \/ \E t \in Tasks : Select(t)
    \/ \E t \in Tasks : Cleanup(t)
    \/ \E id \in OpIds : abort_operation(id)

\* ------------------------------------------------------------------------
\* chat_completion_stream
\* ------------------------------------------------------------------------
\* the events of one streaming operation ("stream-chunk-{session_id}", ..)
Chunk(f) == [type |-> "stream-chunk", payload |-> f]
Done == [type |-> "stream-done", payload |-> ""]
Error(msg) == [type |-> "stream-error", payload |-> msg]

IsTerminal(e) == e.type \in {"stream-done", "stream-error"}

\* what stream.next().await returns: None, Some(Ok(chunk)) or Some(Err(e))
DecodeFailure == ErrString("decode")
Items == {None} \cup {Some(Ok(f)) : f \in Fragments} \cup {Some(DecodeFailure)}

Last(seq) == seq[Len(seq)]

\* what a step of the spawned task does: the events it emits and the path
\* by which it ends, "none" if it goes on
Step(events, path) == [emit |-> events, cause |-> path]

\* lines 104-108: a fresh flag is inserted under session_id, replacing any
\* entry, and the relay task is spawned
chat_completion_stream(st) ==
    /\ stream_pc[st] = "idle"
    /\ \E id \in StreamIds :
         /\ stream_id' = [stream_id EXCEPT ![st] = id]
         /\ stream_operations' = [stream_operations EXCEPT ![id] = st]
    /\ stream_flag' = [stream_flag EXCEPT ![st] = FALSE]
    /\ stream_pc' = [stream_pc EXCEPT ![st] = "establishing"]
    /\ UNCHANGED <<received, emitted, removed, cause, after_abort>>
    /\ UNCHANGED <<actorVars, wrapperVars, codecVars, bufferVars, lockVars,
                   negotiateVars,
                   downloadVars,
                   storageVars>>

\* mutant: the abort arm can be taken without the flag
EstablishBranchesUnsignalled(flag) ==
    {"ok", "err", "timeout", "abort"}

\* the arms of the establishment select! that can be taken: the abort arm
\* only when its loop loads a set flag
EstablishBranches(flag) ==
    {"ok", "err", "timeout"} \cup (IF flag THEN {"abort"} ELSE {})

\* mutant: the timeout arm emits stream-done after its error
establish_timeout_then_done(branch) ==
    CASE branch = "ok" -> Step(<<>>, "none")
      [] branch = "err" ->
           Step(<<Error("Failed to start stream")>>, "establish_failed")
      [] branch = "timeout" ->
           Step(<<Error("Request timeout: Failed to establish connection to AI provider"),
                  Done>>,
                "establish_timeout")
      [] OTHER -> Step(<<Done>>, "establish_abort")

\* mutant: the abort arm emits an error before its done event
establish_abort_with_error(branch) ==
    CASE branch = "ok" -> Step(<<>>, "none")
      [] branch = "err" ->
           Step(<<Error("Failed to start stream")>>, "establish_failed")
      [] branch = "timeout" ->
           Step(<<Error("Request timeout: Failed to establish connection to AI provider")>>,
                "establish_timeout")
      [] OTHER -> Step(<<Error("aborted"), Done>>, "establish_abort")

\* lines 121-186 without the consumption loop: what each outcome of the
\* establishment leads to
establish(branch) ==
    CASE branch = "ok" -> Step(<<>>, "none")
      [] branch = "err" ->
           Step(<<Error("Failed to start stream")>>, "establish_failed")
      [] branch = "timeout" ->
           Step(<<Error("Request timeout: Failed to establish connection to AI provider")>>,
                "establish_timeout")
      [] OTHER -> Step(<<Done>>, "establish_abort")

\* mutant: a fragment that fails to decode is skipped
relay_skips_decode_failure(item, flag, emit_ok) ==
    IF item = None
    THEN Step(<<Done>>, "exhausted")
    ELSE IF flag
    THEN Step(<<Done, Done>>, "abort")
    ELSE IF IsOk(item.val)
    THEN IF emit_ok
         THEN Step(<<Chunk(item.val.val)>>, "none")
         ELSE Step(<<Done>>, "emit_failed")
    ELSE Step(<<>>, "none")

\* mutant: the end of the stream emits no event
relay_silent_at_end(item, flag, emit_ok) ==
    IF item = None
    THEN Step(<<>>, "exhausted")
    ELSE IF flag
    THEN Step(<<Done, Done>>, "abort")
    ELSE IF IsOk(item.val)
    THEN IF emit_ok
         THEN Step(<<Chunk(item.val.val)>>, "none")
         ELSE Step(<<Done>>, "emit_failed")
    ELSE Step(<<Error("Stream error")>>, "decode")

\* one iteration of 'while let Some(result) = stream.next().await' and, when
\* it leaves the loop, the code after the loop; flag is what the abort flag
\* load returns and emit_ok whether app.emit of the chunk succeeded
relay(item, flag, emit_ok) ==
    IF item = None
    THEN Step(<<Done>>, "exhausted")
    ELSE IF flag
    \* the done event of the abort check, then the one after the loop
    THEN Step(<<Done, Done>>, "abort")
    ELSE IF IsOk(item.val)
    THEN IF emit_ok
         THEN Step(<<Chunk(item.val.val)>>, "none")
         ELSE Step(<<Done>>, "emit_failed")
    ELSE Step(<<Error("Stream error")>>, "decode")

\* the number of content events among events
Contents(events) ==
    Cardinality({i \in 1..Len(events) : events[i].type = "stream-chunk"})

\* the task takes a step; a step that ends the relay has emitted the last
\* event and leaves the task waiting for operations.write()
Advance(st, out, ends) ==
    /\ emitted' = [emitted EXCEPT ![st] = @ \o out.emit]
    /\ cause' = [cause EXCEPT ![st] = out.cause]
    /\ after_abort' = [after_abort EXCEPT ![st] =
                          IF stream_flag[st]
                          THEN @ + Contents(out.emit)
                          ELSE @]
    /\ stream_pc' = [stream_pc EXCEPT ![st] = IF ends THEN "unregistering"
                                               ELSE "consuming"]
    /\ UNCHANGED <<stream_operations, removed, stream_flag, stream_id>>
    /\ UNCHANGED <<actorVars, wrapperVars, codecVars, bufferVars, lockVars,
                   negotiateVars,
                   downloadVars,
                   storageVars>>

Establish(st) ==
    /\ stream_pc[st] = "establishing"
    /\ \E branch \in EstablishBranches(stream_flag[st]) :
         Advance(st, establish(branch), branch # "ok")
    /\ UNCHANGED received

\* mutant: the loop forwards without loading the flag
RelayUnchecked(st) ==
    /\ stream_pc[st] = "consuming"
    /\ \E item \in Items :
         /\ Len(received[st]) >= MaxItems => item = None
         /\ received' = [received EXCEPT ![st] = Append(@, item)]
         /\ IF item = None
            THEN Advance(st, relay(item, FALSE, TRUE), TRUE)
            ELSE /\ stream_pc' = [stream_pc EXCEPT ![st] = "forwarding"]
                 /\ UNCHANGED <<emitted, cause, after_abort,
                                stream_operations, removed, stream_flag,
                                stream_id>>
                 /\ UNCHANGED <<actorVars, wrapperVars, codecVars, bufferVars,
                                lockVars, negotiateVars,
                   downloadVars,
                   storageVars>>

\* stream.next().await returns and the flag is loaded (lines 149-154): the
\* end of the stream and a set flag end the relay; otherwise the item is
\* about to be matched
Relay(st) ==
    /\ stream_pc[st] = "consuming"
    /\ \E item \in Items :
         /\ Len(received[st]) >= MaxItems => item = None
         /\ received' = [received EXCEPT ![st] = Append(@, item)]
         /\ IF item = None \/ stream_flag[st]
            THEN Advance(st, relay(item, stream_flag[st], TRUE), TRUE)
            ELSE /\ stream_pc' = [stream_pc EXCEPT ![st] = "forwarding"]
                 /\ UNCHANGED <<emitted, cause, after_abort,
                                stream_operations, removed, stream_flag,
                                stream_id>>
                 /\ UNCHANGED <<actorVars, wrapperVars, codecVars, bufferVars,
                                lockVars, negotiateVars,
                   downloadVars,
                   storageVars>>

\* 'match result' on the item that passed the check (lines 156-171): the
\* flag is not loaded again
Forward(st) ==
    /\ stream_pc[st] = "forwarding"
    /\ \E emit_ok \in BOOLEAN :
         LET out == relay(Last(received[st]), FALSE, emit_ok)
         IN  Advance(st, out, out.cause # "none")
    /\ UNCHANGED received

\* mutant: the task ends without removing its entry
UnregisterNothing(st) ==
    /\ stream_pc[st] = "unregistering"
    /\ stream_pc' = [stream_pc EXCEPT ![st] = "finished"]
    /\ UNCHANGED <<stream_operations, removed, stream_flag, stream_id,
                   received, emitted, cause, after_abort>>
    /\ UNCHANGED <<actorVars, wrapperVars, codecVars, bufferVars, lockVars,
                   negotiateVars,
                   downloadVars,
                   storageVars>>

\* the write guard is obtained: ops.remove(&session_id_clone), and the task
\* is over
Unregister(st) ==
    /\ stream_pc[st] = "unregistering"
    /\ stream_operations' = [stream_operations EXCEPT ![stream_id[st]] = 0]
    /\ removed' = [removed EXCEPT ![st] = @ + 1]
    /\ stream_pc' = [stream_pc EXCEPT ![st] = "finished"]
    /\ UNCHANGED <<stream_flag, stream_id, received, emitted, cause,
                   after_abort>>
    /\ UNCHANGED <<actorVars, wrapperVars, codecVars, bufferVars, lockVars,
                   negotiateVars,
                   downloadVars,
                   storageVars>>

\* abort_operation on the id of a streaming operation
abort_stream(id) ==
    LET out == Signal(stream_operations, stream_flag, id) IN
    /\ stream_operations' = out.registry
    /\ stream_flag' = out.flags
    /\ UNCHANGED <<stream_pc, stream_id, received, emitted, removed, cause,
                   after_abort>>
    /\ UNCHANGED <<actorVars, wrapperVars, codecVars, bufferVars, lockVars,
                   negotiateVars,
                   downloadVars,
                   storageVars>>

NextStream ==
    \/ \E st \in Streams : chat_completion_stream(st)
    \/ \E st \in Streams : Establish(st)
    \/ \E st \in Streams : Relay(st)
    \/ \E st \in Streams : Forward(st)
    \/ \E st \in Streams : Unregister(st)
    \/ \E id \in StreamIds : abort_stream(id)

\* ------------------------------------------------------------------------
\* The sample path
\* ------------------------------------------------------------------------
\* an f32 value num / den, in halves
Rat(n, d) == [num |-> n, den |-> d]

RECURSIVE Sum(_)
Sum(seq) == IF seq = <<>> THEN 0 ELSE Head(seq) + Sum(Tail(seq))

\* data.chunks(c): consecutive groups of c, the last one shorter when the
\* length is no multiple of c
chunks(data, c) ==
    [i \in 1..((Len(data) + c - 1) \div c) |->
        SubSeq(data, (i - 1) * c + 1, Min(i * c, Len(data)))]

\* mutant: the first channel is kept instead of the average
input_callback_first_channel(buf, data, channels) ==
    buf \o [i \in 1..Len(chunks(data, channels)) |->
               Rat(Head(chunks(data, channels)[i]), 1)]

\* the buffering of the input callback: what it leaves in the buffer
input_callback(buf, data, channels) ==
    IF channels > 1
    THEN buf \o [i \in 1..Len(chunks(data, channels)) |->
                    Rat(Sum(chunks(data, channels)[i]), channels)]
    ELSE buf \o [i \in 1..Len(data) |-> Rat(data[i], 1)]

\* wav_to_f32_samples on a container of integer samples: each sample is
\* divided by 2^(bits - 1)
wav_to_f32_samples(w) ==
    IF IsErr(w) THEN ErrString("Failed to parse WAV")
    ELSE Ok([samples |-> [i \in 1..Len(w.val.data) |->
                            Rat(w.val.data[i], 2 ^ (w.val.bits_per_sample - 1))],
             sample_rate |-> w.val.sample_rate,
             channels |-> w.val.channels])

\* the callback runs on block with an empty buffer
InputCallback ==
    /\ buffer = None
    /\ buffer' = Some(input_callback(<<>>, block, nchannels))
    /\ UNCHANGED <<block, nchannels, rate, encoded, decoded>>
    /\ UNCHANGED <<actorVars, wrapperVars, streamVars, bufferVars, lockVars,
                   negotiateVars,
                   downloadVars,
                   storageVars>>

\* stop_recording_internal encodes the buffer as mono
EncodeWav ==
    /\ encoded = None
    /\ \E enc_ok \in BOOLEAN : encoded' = Some(encode_wav(block, rate, 1, enc_ok))
    /\ UNCHANGED <<block, nchannels, rate, buffer, decoded>>
    /\ UNCHANGED <<actorVars, wrapperVars, streamVars, bufferVars, lockVars,
                   negotiateVars,
                   downloadVars,
                   storageVars>>

\* LocalWhisperEngine::transcribe parses the container
DecodeWav ==
    /\ encoded # None
    /\ decoded = None
    /\ decoded' = Some(wav_to_f32_samples(encoded.val))
    /\ UNCHANGED <<block, nchannels, rate, buffer, encoded>>
    /\ UNCHANGED <<actorVars, wrapperVars, streamVars, bufferVars, lockVars,
                   negotiateVars,
                   downloadVars,
                   storageVars>>

NextCodec ==
    \/ InputCallback
    \/ EncodeWav
    \/ DecodeWav

\* ------------------------------------------------------------------------
\* audio/recorder.rs: the input callback and the Stop path on the shared
\* buffer, one step per lock
\* ------------------------------------------------------------------------
\* the mono samples a callback delivers, in halves
CaptureSamples == {1, 2}
\* where a callback may panic: nowhere, inside the level emission (both
\* guards held), or while appending (the samples guard held)
Faults == {"none", "emit", "push"}

\* mutant: the guard is unwrapped, a poisoned mutex yields nothing
lock_unwrap_or_fail(contents, poisoned) ==
    IF poisoned THEN None ELSE Some(contents)

\* match m.lock() { Ok(guard) => guard, Err(poisoned) => poisoned.into_inner() }
lock_or_recover(contents, poisoned) ==
    Some(contents)

\* last_emit_time.lock().unwrap(): None stands for the panic
lock_unwrap(contents, poisoned) ==
    IF poisoned THEN None ELSE Some(contents)

\* the closure given to build_input_stream, on one mono sample: it holds
\* the samples guard throughout and, with an AppHandle, the last_emit_time
\* guard during the level emission. A panic poisons every guard then held
capture_callback(buf, s_poisoned, e_poisoned, handle, sample, fault) ==
    LET guard == lock_or_recover(buf, s_poisoned) IN
    IF guard = None
    THEN [buffer |-> buf, samples_poisoned |-> s_poisoned,
          last_emit_poisoned |-> e_poisoned, panicked |-> TRUE]
    ELSE IF handle /\ lock_unwrap(0, e_poisoned) = None
    THEN [buffer |-> buf, samples_poisoned |-> TRUE,
          last_emit_poisoned |-> TRUE, panicked |-> TRUE]
    ELSE IF handle /\ fault = "emit"
    THEN [buffer |-> buf, samples_poisoned |-> TRUE,
          last_emit_poisoned |-> TRUE, panicked |-> TRUE]
    ELSE IF fault = "push"
    THEN [buffer |-> buf, samples_poisoned |-> TRUE,
          last_emit_poisoned |-> e_poisoned, panicked |-> TRUE]
    ELSE [buffer |-> Append(guard.val, sample), samples_poisoned |-> s_poisoned,
          last_emit_poisoned |-> e_poisoned, panicked |-> FALSE]

\* mutant: the stream outlives the read of the buffer
drop_stream_deferred(alive) ==
    alive

\* drop(state.stream): the backend stops invoking the callback
drop_stream(alive) ==
    FALSE

\* start_recording_internal stores the state of a new session: a new
\* buffer, new mutexes, a playing stream
BeginCapture ==
    /\ capture_pc \in {"none", "stopped"}
    /\ \E t \in Times, handle \in BOOLEAN :
         LET out == start_recording_internal(None, 0, "ok", t) IN
         /\ capture_session' = out.active.val.session
         /\ app_handle' = handle
    /\ capture_pc' = "recording"
    /\ samples_buffer' = <<>>
    /\ samples_poisoned' = FALSE
    /\ last_emit_poisoned' = FALSE
    /\ stream_alive' = TRUE
    /\ halted_with' = None
    /\ stop_outcome' = None
    /\ capture_event' = [type |-> "start"]
    /\ UNCHANGED <<actorVars, wrapperVars, streamVars, codecVars, lockVars,
                   negotiateVars,
                   downloadVars,
                   storageVars>>

\* the backend invokes the callback; after a panic in it the backend may
\* or may not invoke it again
CaptureCallback ==
    /\ stream_alive
    /\ Len(samples_buffer) < MaxCapture
    /\ \E sample \in CaptureSamples, fault \in Faults, again \in BOOLEAN :
         LET out == capture_callback(samples_buffer, samples_poisoned,
                                     last_emit_poisoned, app_handle, sample,
                                     fault)
         IN  /\ samples_buffer' = out.buffer
             /\ samples_poisoned' = out.samples_poisoned
             /\ last_emit_poisoned' = out.last_emit_poisoned
             /\ stream_alive' = IF out.panicked THEN again ELSE TRUE
             /\ capture_event' = [type |-> "callback", fault |-> fault,
                                  panicked |-> out.panicked,
                                  was_poisoned |-> samples_poisoned]
    /\ UNCHANGED <<capture_pc, capture_session, app_handle, halted_with,
                   stop_outcome>>
    /\ UNCHANGED <<actorVars, wrapperVars, streamVars, codecVars, lockVars,
                   negotiateVars,
                   downloadVars,
                   storageVars>>

\* stop_recording_internal with the session's id, up to drop(state.stream)
HaltStream ==
    /\ capture_pc = "recording"
    /\ capture_pc' = "halted"
    /\ stream_alive' = drop_stream(stream_alive)
    /\ halted_with' = Some(samples_buffer)
    /\ capture_event' = [type |-> "halt"]
    /\ UNCHANGED <<capture_session, samples_buffer, samples_poisoned,
                   last_emit_poisoned, app_handle, stop_outcome>>
    /\ UNCHANGED <<actorVars, wrapperVars, streamVars, codecVars, lockVars,
                   negotiateVars,
                   downloadVars,
                   storageVars>>

\* stop_recording_internal from the duration on: lock the buffer, clone
\* it, encode it, build the result. A result of None stands for a panic
DrainBuffer ==
    /\ capture_pc = "halted"
    /\ \E t \in Times, enc_ok \in BOOLEAN :
         LET guard == lock_or_recover(samples_buffer, samples_poisoned)
             state == [session |-> capture_session,
                       samples |-> IF guard = None THEN <<>> ELSE guard.val]
             out == stop_recording_internal(Some(state), 1,
                        capture_session.session_id, t, enc_ok, overflow_checks)
         IN  stop_outcome' = Some([result |-> IF guard = None THEN None
                                               ELSE out.result,
                                   session_id |-> capture_session.session_id])
    /\ capture_pc' = "stopped"
    /\ capture_event' = [type |-> "drain", was_poisoned |-> samples_poisoned]
    /\ UNCHANGED <<capture_session, samples_buffer, samples_poisoned,
                   last_emit_poisoned, app_handle, stream_alive, halted_with>>
    /\ UNCHANGED <<actorVars, wrapperVars, streamVars, codecVars, lockVars,
                   negotiateVars,
                   downloadVars,
                   storageVars>>

NextBuffer ==
    \/ BeginCapture
    \/ CaptureCallback
    \/ HaltStream
    \/ DrainBuffer

\* ------------------------------------------------------------------------
\* commands.rs: the guards of active_operations, one step per acquisition
\* and per release. A write guard needs the lock free; a read guard needs
\* no writer
\* ------------------------------------------------------------------------
LockKinds == {"wrapper", "stream"}

\* active_operations.write().await returns: the operation holds the write
\* guard for its insert
AcquireInsert(o) ==
    /\ lock_pc[o] = "idle"
    /\ lock_writer = 0
    /\ lock_readers = 0
    /\ \E kind \in LockKinds : lock_kind' = [lock_kind EXCEPT ![o] = kind]
    /\ lock_writer' = o
    /\ lock_pc' = [lock_pc EXCEPT ![o] = "inserting"]
    /\ UNCHANGED <<lock_readers, abort_pc>>
    /\ UNCHANGED <<actorVars, wrapperVars, streamVars, codecVars, bufferVars,
                   negotiateVars,
                   downloadVars,
                   storageVars>>

\* mutant: the write guard of the insert lives on into the race
EndInsertGuardKept(o) ==
    /\ lock_pc[o] = "inserting"
    /\ lock_pc' = [lock_pc EXCEPT ![o] = "awaiting"]
    /\ UNCHANGED <<lock_writer, lock_readers, lock_kind, abort_pc>>
    /\ UNCHANGED <<actorVars, wrapperVars, streamVars, codecVars, bufferVars,
                   negotiateVars,
                   downloadVars,
                   storageVars>>

\* operations.insert(..) and the end of the guard's scope; the operation
\* goes on to await work, the timer, the poll sleep or the next item
EndInsert(o) ==
    /\ lock_pc[o] = "inserting"
    /\ lock_writer' = 0
    /\ lock_pc' = [lock_pc EXCEPT ![o] = "awaiting"]
    /\ UNCHANGED <<lock_readers, lock_kind, abort_pc>>
    /\ UNCHANGED <<actorVars, wrapperVars, streamVars, codecVars, bufferVars,
                   negotiateVars,
                   downloadVars,
                   storageVars>>

\* what the operation awaited has resolved (the select!, or the relay has
\* emitted its last event): it now waits for the write guard
RaceResolves(o) ==
    /\ lock_pc[o] = "awaiting"
    /\ lock_pc' = [lock_pc EXCEPT ![o] = "finishing"]
    /\ UNCHANGED <<lock_writer, lock_readers, lock_kind, abort_pc>>
    /\ UNCHANGED <<actorVars, wrapperVars, streamVars, codecVars, bufferVars,
                   negotiateVars,
                   downloadVars,
                   storageVars>>

AcquireRemove(o) ==
    /\ lock_pc[o] = "finishing"
    /\ lock_writer = 0
    /\ lock_readers = 0
    /\ lock_writer' = o
    /\ lock_pc' = [lock_pc EXCEPT ![o] = "removing"]
    /\ UNCHANGED <<lock_readers, lock_kind, abort_pc>>
    /\ UNCHANGED <<actorVars, wrapperVars, streamVars, codecVars, bufferVars,
                   negotiateVars,
                   downloadVars,
                   storageVars>>

\* ops.remove(..) and the end of the guard's scope: the operation is over
EndRemove(o) ==
    /\ lock_pc[o] = "removing"
    /\ lock_writer' = 0
    /\ lock_pc' = [lock_pc EXCEPT ![o] = "idle"]
    /\ lock_kind' = [lock_kind EXCEPT ![o] = "none"]
    /\ UNCHANGED <<lock_readers, abort_pc>>
    /\ UNCHANGED <<actorVars, wrapperVars, streamVars, codecVars, bufferVars,
                   negotiateVars,
                   downloadVars,
                   storageVars>>

\* abort_operation: active_operations.read().await returns
AbortAcquire ==
    /\ abort_pc = "idle"
    /\ lock_writer = 0
    /\ lock_readers' = lock_readers + 1
    /\ abort_pc' = "reading"
    /\ UNCHANGED <<lock_writer, lock_pc, lock_kind>>
    /\ UNCHANGED <<actorVars, wrapperVars, streamVars, codecVars, bufferVars,
                   negotiateVars,
                   downloadVars,
                   storageVars>>

\* abort_operation: get, store, and the read guard is dropped on return
AbortRelease ==
    /\ abort_pc = "reading"
    /\ lock_readers' = lock_readers - 1
    /\ abort_pc' = "idle"
    /\ UNCHANGED <<lock_writer, lock_pc, lock_kind>>
    /\ UNCHANGED <<actorVars, wrapperVars, streamVars, codecVars, bufferVars,
                   negotiateVars,
                   downloadVars,
                   storageVars>>

NextLock ==
    \/ \E o \in LockOps : AcquireInsert(o)
    \/ \E o \in LockOps : EndInsert(o)
    \/ \E o \in LockOps : RaceResolves(o)
    \/ \E o \in LockOps : AcquireRemove(o)
    \/ \E o \in LockOps : EndRemove(o)
    \/ AbortAcquire
    \/ AbortRelease

\* ------------------------------------------------------------------------
\* audio/recorder.rs: start_recording_internal chooses the configuration
\* and the sample rate
\* ------------------------------------------------------------------------
\* sample rates a device range or a request may name, in Hz
Rates == {16000, 48000, 88200, 96000}

\* a SupportedStreamConfigRange: a channel count and a range of rates
ConfigRanges ==
    {c \in [channels : ChannelCounts, min_sample_rate : Rates,
            max_sample_rate : Rates] :
        c.min_sample_rate <= c.max_sample_rate}

\* the rate that caps the fallback
FallbackRateCap == 48000

\* Iterator::find: the first element of seq that satisfies P, or None
Find(seq, P(_)) ==
    LET hits == {i \in 1..Len(seq) : P(seq[i])}
    IN  IF hits = {} THEN None
        ELSE Some(seq[CHOOSE i \in hits : \A j \in hits : i <= j])

\* the closure of the first find
InRange(c, config) ==
    /\ c.min_sample_rate <= config.sample_rate
    /\ c.max_sample_rate >= config.sample_rate

ExactMatch(c, config) ==
    c.channels = config.channels /\ InRange(c, config)

\* mutant: the single-channel fallback is left out
supported_config_without_mono(configs, config, second_ok, third_ok) ==
    LET exact(c) == ExactMatch(c, config)
        first == Find(configs, exact)
    IN  IF first # None THEN first
        ELSE IF third_ok /\ Len(configs) > 0 THEN Some(configs[1]) ELSE None

\* find(..).or_else(..).or_else(..): each fallback enumerates the device's
\* configurations again, and an enumeration that fails yields None
\* (second_ok, third_ok: whether that enumeration succeeded)
supported_config(configs, config, second_ok, third_ok) ==
    LET exact(c) == ExactMatch(c, config)
        mono(c) == c.channels = 1
        first == Find(configs, exact)
        second == IF first # None THEN first
                  ELSE IF second_ok THEN Find(configs, mono) ELSE None
    IN  IF second # None THEN second
        ELSE IF third_ok /\ Len(configs) > 0 THEN Some(configs[1]) ELSE None

\* the requested rate if the chosen range contains it, else the range's
\* maximum capped at 48000
sample_rate_of(c, config) ==
    IF InRange(c, config) THEN config.sample_rate
    ELSE Min(c.max_sample_rate, FallbackRateCap)

\* lines 174-215: the configuration, the rate and the stream_config built
\* from them, or the error of line 198
negotiate(configs, config, second_ok, third_ok) ==
    LET chosen == supported_config(configs, config, second_ok, third_ok) IN
    IF chosen = None
    THEN StreamInitFailed("No suitable audio config found")
    ELSE Ok([supported_config |-> chosen.val,
             sample_rate |-> sample_rate_of(chosen.val, config),
             channels |-> chosen.val.channels])

\* start_recording_internal reaches the negotiation
Negotiate ==
    /\ negotiation = None
    /\ \E second_ok \in BOOLEAN, third_ok \in BOOLEAN :
         negotiation' = Some([result |-> negotiate(supported_configs, requested,
                                                   second_ok, third_ok),
                              enumerations |-> <<second_ok, third_ok>>])
    /\ UNCHANGED <<supported_configs, requested>>
    /\ UNCHANGED <<actorVars, wrapperVars, streamVars, codecVars, bufferVars,
                   lockVars,
                   downloadVars,
                   storageVars>>

NextNegotiate == Negotiate

\* ------------------------------------------------------------------------
\* local_models/manager.rs: download_model, download_file, delete_model
\* ------------------------------------------------------------------------
Downloads == 1..NumDownloads
\* ids of the catalog, and one that find_catalog_entry does not know
ModelIds == {"whisper-tiny", "whisper-base"}
Uncatalogued == "unknown"
\* the body of a model, in chunks
Body == [i \in 1..MaxChunks |-> i]

\* model_path: models_dir.join(entry.filename), every filename ends in .bin
model_path(model_id) == [model |-> model_id, ext |-> "bin"]

\* mutant: the data is written to the destination itself
temp_path_is_dest(dest) ==
    dest

\* dest.with_extension("downloading")
temp_path(dest) ==
    [dest EXCEPT !.ext = "downloading"]

exists(path) == files[path] # None

\* get_model_file_path and the 'downloaded' of list_models
get_model_file_path(model_id) ==
    IF model_id \notin ModelIds
    THEN None
    ELSE IF exists(model_path(model_id))
    THEN Some(model_path(model_id))
    ELSE None

\* mutant: the id is inserted without the contains check
mark_downloading_unchecked(set, model_id) ==
    [set |-> set \cup {model_id}, result |-> Ok(Unit)]

\* lines 76-82, under one write guard
mark_downloading(set, model_id) ==
    IF model_id \in set
    THEN [set |-> set,
          result |-> ErrString("Model is already being downloaded")]
    ELSE [set |-> set \cup {model_id}, result |-> Ok(Unit)]

\* download_model up to the release of the write guard
download_model(d) ==
    /\ dl_pc[d] = "idle"
    /\ \E model_id \in ModelIds \cup {Uncatalogued} :
         /\ IF model_id \notin ModelIds
            THEN /\ UNCHANGED <<dl_result, dl_model>>
                 /\ dl_event' = [type |-> "rejected", d |-> d,
                                 model |-> model_id,
                                 result |-> ErrString("Model not found in catalog")]
                 /\ UNCHANGED <<downloading, dl_pc>>
            ELSE LET out == mark_downloading(downloading, model_id) IN
                 /\ downloading' = out.set
                 /\ dl_model' = [dl_model EXCEPT ![d] =
                                    IF IsOk(out.result) THEN model_id ELSE @]
                 /\ UNCHANGED dl_result
                 /\ dl_pc' = [dl_pc EXCEPT ![d] =
                                 IF IsOk(out.result) THEN "requesting"
                                 ELSE "idle"]
                 /\ dl_event' = [type |-> IF IsOk(out.result) THEN "accepted"
                                          ELSE "rejected",
                                 d |-> d, model |-> model_id,
                                 result |-> out.result]
    /\ UNCHANGED <<files, fetched>>
    /\ UNCHANGED <<actorVars, wrapperVars, streamVars, codecVars, bufferVars,
                   lockVars, negotiateVars,
                   storageVars>>

\* download_file ends: its result is kept until the id is removed
FileReturns(d, res) ==
    /\ dl_result' = [dl_result EXCEPT ![d] = Some(res)]
    /\ dl_pc' = [dl_pc EXCEPT ![d] = "removing"]
    /\ fetched' = [fetched EXCEPT ![d] = 0]

\* download_file, lines 105-128: the client, the request, the status and
\* File::create of the temporary file, which truncates it
Request(d) ==
    /\ dl_pc[d] = "requesting"
    /\ \E step \in {"client", "send", "status", "create", "ok"} :
         /\ IF step = "ok"
            THEN /\ files' = [files EXCEPT
                                 ![temp_path(model_path(dl_model[d]))] =
                                    Some(<<>>)]
                 /\ dl_pc' = [dl_pc EXCEPT ![d] = "writing"]
                 /\ UNCHANGED <<dl_result, fetched>>
            ELSE /\ FileReturns(d, ErrString(
                       CASE step = "client" -> "Failed to create HTTP client"
                         [] step = "send" -> "Failed to start download"
                         [] step = "status" -> "Download failed with status"
                         [] OTHER -> "Failed to create file"))
                 /\ UNCHANGED files
         /\ dl_event' = [type |-> "request", d |-> d, model |-> dl_model[d],
                         step |-> step]
    /\ UNCHANGED <<downloading, dl_model>>
    /\ UNCHANGED <<actorVars, wrapperVars, streamVars, codecVars, bufferVars,
                   lockVars, negotiateVars,
                   storageVars>>

\* one iteration of the loop of lines 134-145: the stream yields a chunk or
\* an error; write_all may fail after writing a part of the chunk
WriteChunk(d) ==
    /\ dl_pc[d] = "writing"
    /\ fetched[d] < MaxChunks
    /\ LET temp == temp_path(model_path(dl_model[d])) IN
       \E step \in {"chunk_err", "write_err", "partial_write", "ok"} :
         /\ CASE step = "ok" ->
                   /\ files' = [files EXCEPT ![temp] =
                                   Some(Append(@.val, Body[fetched[d] + 1]))]
                   /\ fetched' = [fetched EXCEPT ![d] = @ + 1]
                   /\ UNCHANGED <<dl_result, dl_pc>>
              [] step = "partial_write" ->
                   /\ files' = [files EXCEPT ![temp] = Some(Append(@.val, 0))]
                   /\ FileReturns(d, ErrString("Failed to write"))
              [] step = "write_err" ->
                   /\ FileReturns(d, ErrString("Failed to write"))
                   /\ UNCHANGED files
              [] OTHER ->
                   /\ FileReturns(d, ErrString("Download error"))
                   /\ UNCHANGED files
         /\ dl_event' = [type |-> "chunk", d |-> d, model |-> dl_model[d],
                         step |-> step]
    /\ UNCHANGED <<downloading, dl_model>>
    /\ UNCHANGED <<actorVars, wrapperVars, streamVars, codecVars, bufferVars,
                   lockVars, negotiateVars,
                   storageVars>>

\* lines 147-156: the stream has ended; flush, then rename the temporary
\* file to the destination
Finalize(d) ==
    /\ dl_pc[d] = "writing"
    /\ fetched[d] = MaxChunks
    /\ LET dest == model_path(dl_model[d])
           temp == temp_path(dest)
       IN  \E step \in {"flush_err", "rename_err", "ok"} :
         /\ IF step = "ok"
            THEN /\ files' = [files EXCEPT ![temp] = None, ![dest] = files[temp]]
                 /\ FileReturns(d, Ok(Unit))
            ELSE /\ FileReturns(d, ErrString(
                       IF step = "flush_err" THEN "Failed to flush"
                       ELSE "Failed to finalize download"))
                 /\ UNCHANGED files
         /\ dl_event' = [type |-> "finalize", d |-> d, model |-> dl_model[d],
                         step |-> step]
    /\ UNCHANGED <<downloading, dl_model>>
    /\ UNCHANGED <<actorVars, wrapperVars, streamVars, codecVars, bufferVars,
                   lockVars, negotiateVars,
                   storageVars>>

\* lines 91-97: the id is removed and the result of download_file returned
RemoveDownloading(d) ==
    /\ dl_pc[d] = "removing"
    /\ downloading' = downloading \ {dl_model[d]}
    /\ dl_pc' = [dl_pc EXCEPT ![d] = "idle"]
    /\ dl_event' = [type |-> "returned", d |-> d, model |-> dl_model[d],
                    result |-> dl_result[d].val]
    /\ dl_model' = [dl_model EXCEPT ![d] = "none"]
    /\ dl_result' = [dl_result EXCEPT ![d] = None]
    /\ UNCHANGED <<files, fetched>>
    /\ UNCHANGED <<actorVars, wrapperVars, streamVars, codecVars, bufferVars,
                   lockVars, negotiateVars,
                   storageVars>>

\* delete_model of a model whose file exists
delete_model(model_id) ==
    /\ exists(model_path(model_id))
    /\ files' = [files EXCEPT ![model_path(model_id)] = None]
    /\ dl_event' = [type |-> "deleted", d |-> 0, model |-> model_id,
                    result |-> Ok(Unit)]
    /\ UNCHANGED <<downloading, dl_pc, dl_model, dl_result, fetched>>
    /\ UNCHANGED <<actorVars, wrapperVars, streamVars, codecVars, bufferVars,
                   lockVars, negotiateVars,
                   storageVars>>

NextDownload ==
    \/ \E d \in Downloads : download_model(d)
    \/ \E d \in Downloads : Request(d)
    \/ \E d \in Downloads : WriteChunk(d)
    \/ \E d \in Downloads : Finalize(d)
    \/ \E d \in Downloads : RemoveDownloading(d)
    \/ \E model_id \in ModelIds : delete_model(model_id)

\* ------------------------------------------------------------------------
\* secure_storage.rs: set_credential, get_credential, delete_credential
\* ------------------------------------------------------------------------
StorageCallers == 1..NumStorageCalls
CredentialKeys == {"a", "b"}
CredentialValues == {"v1", "v2"}
StorageCalls ==
    [op : {"set"}, key : CredentialKeys, value : CredentialValues]
      \cup [op : {"get", "delete"}, key : CredentialKeys]
NoCredentials == [k \in CredentialKeys |-> None]
NotFound == ErrString("Credential not found for key")
IoError == ErrString("IO error")

\* load_credentials: the map in the file; a missing, empty or short file
\* is the empty map; read and decryption may fail
load_credentials(file, ok) ==
    IF ok THEN Ok(file) ELSE IoError

\* save_credentials: fs::write replaces the whole file with map; a failure
\* before the file is opened leaves it, one after the truncation leaves
\* an empty file
save_credentials(file, map, outcome) ==
    CASE outcome = "ok" -> [file |-> map, result |-> Ok(Unit)]
      [] outcome = "torn" -> [file |-> NoCredentials, result |-> IoError]
      [] OTHER -> [file |-> file, result |-> IoError]

\* a method returns result to its caller
StorageReturn(c, res) ==
    /\ st_pc' = [st_pc EXCEPT ![c] = "idle"]
    /\ credentials' = [credentials EXCEPT ![c] = None]
    /\ st_event' = [type |-> "return", caller |-> c, call |-> st_call[c],
                    result |-> res]

\* a method is entered; get_credential looks in the cache first
BeginCall(c) ==
    /\ st_pc[c] = "idle"
    /\ \E call \in StorageCalls :
         /\ st_call' = [st_call EXCEPT ![c] = call]
         /\ IF call.op = "get" /\ cache[call.key] # None
            THEN /\ st_pc' = st_pc
                 /\ st_event' = [type |-> "return", caller |-> c, call |-> call,
                                 result |-> Ok(cache[call.key].val)]
            ELSE /\ st_pc' = [st_pc EXCEPT ![c] = "loading"]
                 /\ st_event' = [type |-> "begin", caller |-> c, call |-> call]
    /\ overlapped' = (overlapped \/ \E o \in StorageCallers \ {c} :
                                       st_pc[o] # "idle")
    /\ UNCHANGED <<stored, cache, credentials, latest, torn>>
    /\ UNCHANGED <<actorVars, wrapperVars, streamVars, codecVars, bufferVars,
                   lockVars, negotiateVars, downloadVars>>

\* self.load_credentials()?, then the insert or remove on the loaded map,
\* or the lookup of get_credential
LoadStep(c) ==
    /\ st_pc[c] = "loading"
    /\ \E ok \in BOOLEAN :
         LET loaded == load_credentials(stored, ok)
             call == st_call[c]
         IN  IF IsErr(loaded)
             THEN StorageReturn(c, loaded)
             ELSE CASE call.op = "set" ->
                         /\ credentials' = [credentials EXCEPT ![c] =
                               Some([loaded.val EXCEPT ![call.key] =
                                        Some(call.value)])]
                         /\ st_pc' = [st_pc EXCEPT ![c] = "saving"]
                         /\ st_event' = [type |-> "load", caller |-> c]
                    [] call.op = "delete" ->
                         /\ credentials' = [credentials EXCEPT ![c] =
                               Some([loaded.val EXCEPT ![call.key] = None])]
                         /\ st_pc' = [st_pc EXCEPT ![c] = "saving"]
                         /\ st_event' = [type |-> "load", caller |-> c]
                    [] OTHER ->
                         IF loaded.val[call.key] = None
                         THEN StorageReturn(c, NotFound)
                         ELSE /\ credentials' = [credentials EXCEPT ![c] =
                                                    Some(loaded.val)]
                              /\ st_pc' = [st_pc EXCEPT ![c] = "caching"]
                              /\ st_event' = [type |-> "load", caller |-> c]
    /\ UNCHANGED <<stored, cache, st_call, latest, overlapped, torn>>
    /\ UNCHANGED <<actorVars, wrapperVars, streamVars, codecVars, bufferVars,
                   lockVars, negotiateVars, downloadVars>>

\* self.save_credentials(&credentials)?
SaveStep(c) ==
    /\ st_pc[c] = "saving"
    /\ \E outcome \in {"ok", "err", "torn"} :
         LET out == save_credentials(stored, credentials[c].val, outcome) IN
         /\ stored' = out.file
         /\ torn' = (torn \/ outcome = "torn")
         /\ IF IsErr(out.result)
            THEN StorageReturn(c, out.result)
            ELSE /\ st_pc' = [st_pc EXCEPT ![c] = "caching"]
                 /\ st_event' = [type |-> "save", caller |-> c]
                 /\ UNCHANGED credentials
    /\ UNCHANGED <<cache, st_call, latest, overlapped>>
    /\ UNCHANGED <<actorVars, wrapperVars, streamVars, codecVars, bufferVars,
                   lockVars, negotiateVars, downloadVars>>

\* the cache is locked and updated, and the method returns
CacheStep(c) ==
    /\ st_pc[c] = "caching"
    /\ LET call == st_call[c] IN
       /\ cache' = [cache EXCEPT ![call.key] =
                       CASE call.op = "set" -> Some(call.value)
                         [] call.op = "delete" -> None
                         [] OTHER -> credentials[c].val[call.key]]
       /\ latest' = [latest EXCEPT ![call.key] =
                        CASE call.op = "set" -> Some(call.value)
                          [] call.op = "delete" -> None
                          [] OTHER -> @]
       /\ StorageReturn(c, IF call.op = "get"
                           THEN Ok(credentials[c].val[call.key].val)
                           ELSE Ok(Unit))
    /\ UNCHANGED <<stored, st_call, overlapped, torn>>
    /\ UNCHANGED <<actorVars, wrapperVars, streamVars, codecVars, bufferVars,
                   lockVars, negotiateVars, downloadVars>>

NextStorage ==
    \/ \E c \in StorageCallers : BeginCall(c)
    \/ \E c \in StorageCallers : LoadStep(c)
    \/ \E c \in StorageCallers : SaveStep(c)
    \/ \E c \in StorageCallers : CacheStep(c)

\* ------------------------------------------------------------------------
\* Specifications
\* ------------------------------------------------------------------------
\* AudioRecordingManager::new() has spawned the worker; no operation runs
InitActor ==
    /\ active_recording = None
    /\ open_streams = 0
    /\ queue = <<>>
    /\ worker = "running"
    /\ manager_alive = TRUE
    /\ caller_pc = [c \in Callers |-> "idle"]
    /\ caller_call = [c \in Callers |-> "none"]
    /\ resp = [c \in Callers |-> Empty]
    /\ overflow_checks \in BOOLEAN
    /\ event = NoEvent
    /\ active_operations = [id \in OpIds |-> 0]
    /\ abort_flag = [t \in Tasks |-> FALSE]
    /\ task_pc = [t \in Tasks |-> "idle"]
    /\ operation_id = [t \in Tasks |-> "none"]
    /\ work = [t \in Tasks |-> "pending"]
    /\ timer = [t \in Tasks |-> "pending"]
    /\ poll = [t \in Tasks |-> "check"]
    /\ result = [t \in Tasks |-> None]
    /\ winner = [t \in Tasks |-> "none"]
    /\ work_result = [t \in Tasks |-> None]
    /\ op_event = NoEvent
    /\ stream_operations = [id \in StreamIds |-> 0]
    /\ stream_flag = [st \in Streams |-> FALSE]
    /\ stream_pc = [st \in Streams |-> "idle"]
    /\ stream_id = [st \in Streams |-> "none"]
    /\ received = [st \in Streams |-> <<>>]
    /\ emitted = [st \in Streams |-> <<>>]
    /\ removed = [st \in Streams |-> 0]
    /\ cause = [st \in Streams |-> "none"]
    /\ after_abort = [st \in Streams |-> 0]
    /\ block = <<>>
    /\ nchannels = 1
    /\ rate = DefaultSampleRate
    /\ buffer = None
    /\ encoded = None
    /\ decoded = None
    /\ capture_pc = "none"
    /\ capture_session = None
    /\ samples_buffer = <<>>
    /\ samples_poisoned = FALSE
    /\ last_emit_poisoned = FALSE
    /\ app_handle = FALSE
    /\ stream_alive = FALSE
    /\ halted_with = None
    /\ stop_outcome = None
    /\ capture_event = [type |-> "none"]
    /\ lock_writer = 0
    /\ lock_readers = 0
    /\ lock_pc = [o \in LockOps |-> "idle"]
    /\ lock_kind = [o \in LockOps |-> "none"]
    /\ abort_pc = "idle"
    /\ supported_configs = <<>>
    /\ requested = [channels |-> 1, sample_rate |-> DefaultSampleRate]
    /\ negotiation = None
    /\ downloading = {}
    /\ files = [p \in [model : {"whisper-tiny", "whisper-base"}, ext : {"bin", "downloading"}] |-> None]
    /\ dl_pc = [d \in 1..NumDownloads |-> "idle"]
    /\ dl_model = [d \in 1..NumDownloads |-> "none"]
    /\ dl_result = [d \in 1..NumDownloads |-> None]
    /\ fetched = [d \in 1..NumDownloads |-> 0]
    /\ dl_event = [type |-> "none"]
    /\ stored = [k \in {"a", "b"} |-> None]
    /\ cache = [k \in {"a", "b"} |-> None]
    /\ st_pc = [c \in 1..NumStorageCalls |-> "idle"]
    /\ st_call = [c \in 1..NumStorageCalls |-> [op |-> "none"]]
    /\ credentials = [c \in 1..NumStorageCalls |-> None]
    /\ latest = [k \in {"a", "b"} |-> None]
    /\ overlapped = FALSE
    /\ torn = FALSE
    /\ st_event = [type |-> "none"]

\* the same state, in a build without overflow checks
InitWrapper ==
    /\ active_recording = None
    /\ open_streams = 0
    /\ queue = <<>>
    /\ worker = "running"
    /\ manager_alive = TRUE
    /\ caller_pc = [c \in Callers |-> "idle"]
    /\ caller_call = [c \in Callers |-> "none"]
    /\ resp = [c \in Callers |-> Empty]
    /\ overflow_checks = FALSE
    /\ event = NoEvent
    /\ active_operations = [id \in OpIds |-> 0]
    /\ abort_flag = [t \in Tasks |-> FALSE]
    /\ task_pc = [t \in Tasks |-> "idle"]
    /\ operation_id = [t \in Tasks |-> "none"]
    /\ work = [t \in Tasks |-> "pending"]
    /\ timer = [t \in Tasks |-> "pending"]
    /\ poll = [t \in Tasks |-> "check"]
    /\ result = [t \in Tasks |-> None]
    /\ winner = [t \in Tasks |-> "none"]
    /\ work_result = [t \in Tasks |-> None]
    /\ op_event = NoEvent
    /\ stream_operations = [id \in StreamIds |-> 0]
    /\ stream_flag = [st \in Streams |-> FALSE]
    /\ stream_pc = [st \in Streams |-> "idle"]
    /\ stream_id = [st \in Streams |-> "none"]
    /\ received = [st \in Streams |-> <<>>]
    /\ emitted = [st \in Streams |-> <<>>]
    /\ removed = [st \in Streams |-> 0]
    /\ cause = [st \in Streams |-> "none"]
    /\ after_abort = [st \in Streams |-> 0]
    /\ block = <<>>
    /\ nchannels = 1
    /\ rate = DefaultSampleRate
    /\ buffer = None
    /\ encoded = None
    /\ decoded = None
    /\ capture_pc = "none"
    /\ capture_session = None
    /\ samples_buffer = <<>>
    /\ samples_poisoned = FALSE
    /\ last_emit_poisoned = FALSE
    /\ app_handle = FALSE
    /\ stream_alive = FALSE
    /\ halted_with = None
    /\ stop_outcome = None
    /\ capture_event = [type |-> "none"]
    /\ lock_writer = 0
    /\ lock_readers = 0
    /\ lock_pc = [o \in LockOps |-> "idle"]
    /\ lock_kind = [o \in LockOps |-> "none"]
    /\ abort_pc = "idle"
    /\ supported_configs = <<>>
    /\ requested = [channels |-> 1, sample_rate |-> DefaultSampleRate]
    /\ negotiation = None
    /\ downloading = {}
    /\ files = [p \in [model : {"whisper-tiny", "whisper-base"}, ext : {"bin", "downloading"}] |-> None]
    /\ dl_pc = [d \in 1..NumDownloads |-> "idle"]
    /\ dl_model = [d \in 1..NumDownloads |-> "none"]
    /\ dl_result = [d \in 1..NumDownloads |-> None]
    /\ fetched = [d \in 1..NumDownloads |-> 0]
    /\ dl_event = [type |-> "none"]
    /\ stored = [k \in {"a", "b"} |-> None]
    /\ cache = [k \in {"a", "b"} |-> None]
    /\ st_pc = [c \in 1..NumStorageCalls |-> "idle"]
    /\ st_call = [c \in 1..NumStorageCalls |-> [op |-> "none"]]
    /\ credentials = [c \in 1..NumStorageCalls |-> None]
    /\ latest = [k \in {"a", "b"} |-> None]
    /\ overlapped = FALSE
    /\ torn = FALSE
    /\ st_event = [type |-> "none"]

\* the audio worker and its callers; no wrapped operation runs
SpecActor == InitActor /\ [][NextActor]_vars
\* the same, with callers whose receiver is dropped while they wait
SpecActorDrop == InitActor /\ [][NextActorDrop]_vars

\* the wrapped operations and abort_operation; the audio worker is idle
SpecWrapper == InitWrapper /\ [][NextWrapper]_vars

\* the wrapped operations when an invocation may be abandoned
NextAbandon ==
    \/ NextWrapper
    \/ \E t \in Tasks : Abandon(t)

SpecAbandon == InitWrapper /\ [][NextAbandon]_vars

\* the sample path applied to every block of the grid
InitCodec ==
    /\ active_recording = None
    /\ open_streams = 0
    /\ queue = <<>>
    /\ worker = "running"
    /\ manager_alive = TRUE
    /\ caller_pc = [c \in Callers |-> "idle"]
    /\ caller_call = [c \in Callers |-> "none"]
    /\ resp = [c \in Callers |-> Empty]
    /\ overflow_checks = FALSE
    /\ event = NoEvent
    /\ active_operations = [id \in OpIds |-> 0]
    /\ abort_flag = [t \in Tasks |-> FALSE]
    /\ task_pc = [t \in Tasks |-> "idle"]
    /\ operation_id = [t \in Tasks |-> "none"]
    /\ work = [t \in Tasks |-> "pending"]
    /\ timer = [t \in Tasks |-> "pending"]
    /\ poll = [t \in Tasks |-> "check"]
    /\ result = [t \in Tasks |-> None]
    /\ winner = [t \in Tasks |-> "none"]
    /\ work_result = [t \in Tasks |-> None]
    /\ op_event = NoEvent
    /\ stream_operations = [id \in StreamIds |-> 0]
    /\ stream_flag = [st \in Streams |-> FALSE]
    /\ stream_pc = [st \in Streams |-> "idle"]
    /\ stream_id = [st \in Streams |-> "none"]
    /\ received = [st \in Streams |-> <<>>]
    /\ emitted = [st \in Streams |-> <<>>]
    /\ removed = [st \in Streams |-> 0]
    /\ cause = [st \in Streams |-> "none"]
    /\ after_abort = [st \in Streams |-> 0]
    /\ block \in UNION {[1..n -> SampleGrid] : n \in 0..MaxBlock}
    /\ nchannels \in ChannelCounts
    /\ rate \in SampleRates
    /\ buffer = None
    /\ encoded = None
    /\ decoded = None
    /\ capture_pc = "none"
    /\ capture_session = None
    /\ samples_buffer = <<>>
    /\ samples_poisoned = FALSE
    /\ last_emit_poisoned = FALSE
    /\ app_handle = FALSE
    /\ stream_alive = FALSE
    /\ halted_with = None
    /\ stop_outcome = None
    /\ capture_event = [type |-> "none"]
    /\ lock_writer = 0
    /\ lock_readers = 0
    /\ lock_pc = [o \in LockOps |-> "idle"]
    /\ lock_kind = [o \in LockOps |-> "none"]
    /\ abort_pc = "idle"
    /\ supported_configs = <<>>
    /\ requested = [channels |-> 1, sample_rate |-> DefaultSampleRate]
    /\ negotiation = None
    /\ downloading = {}
    /\ files = [p \in [model : {"whisper-tiny", "whisper-base"}, ext : {"bin", "downloading"}] |-> None]
    /\ dl_pc = [d \in 1..NumDownloads |-> "idle"]
    /\ dl_model = [d \in 1..NumDownloads |-> "none"]
    /\ dl_result = [d \in 1..NumDownloads |-> None]
    /\ fetched = [d \in 1..NumDownloads |-> 0]
    /\ dl_event = [type |-> "none"]
    /\ stored = [k \in {"a", "b"} |-> None]
    /\ cache = [k \in {"a", "b"} |-> None]
    /\ st_pc = [c \in 1..NumStorageCalls |-> "idle"]
    /\ st_call = [c \in 1..NumStorageCalls |-> [op |-> "none"]]
    /\ credentials = [c \in 1..NumStorageCalls |-> None]
    /\ latest = [k \in {"a", "b"} |-> None]
    /\ overlapped = FALSE
    /\ torn = FALSE
    /\ st_event = [type |-> "none"]

SpecCodec == InitCodec /\ [][NextCodec]_vars

\* the streaming operations and abort_operation on their ids
SpecStream == InitWrapper /\ [][NextStream]_vars
\* the spawned task is scheduled and its stream yields an item or ends:
\* the runtime polls a ready task, and operations.write() is granted once
\* the readers have released the lock
SpecStreamFair ==
    /\ InitWrapper
    /\ [][NextStream]_vars
    /\ \A st \in Streams :
          /\ WF_vars(Relay(st))
          /\ WF_vars(Forward(st))
          /\ WF_vars(Unregister(st))

\* one capture session after another: the callback thread and the Stop path
SpecBuffer == InitWrapper /\ [][NextBuffer]_vars

\* the operations and abort_operation at the registry's lock
SpecLock == InitWrapper /\ [][NextLock]_vars

\* a device and a request, before start_recording_internal negotiates
InitNegotiate ==
    /\ active_recording = None
    /\ open_streams = 0
    /\ queue = <<>>
    /\ worker = "running"
    /\ manager_alive = TRUE
    /\ caller_pc = [c \in Callers |-> "idle"]
    /\ caller_call = [c \in Callers |-> "none"]
    /\ resp = [c \in Callers |-> Empty]
    /\ overflow_checks = FALSE
    /\ event = NoEvent
    /\ active_operations = [id \in OpIds |-> 0]
    /\ abort_flag = [t \in Tasks |-> FALSE]
    /\ task_pc = [t \in Tasks |-> "idle"]
    /\ operation_id = [t \in Tasks |-> "none"]
    /\ work = [t \in Tasks |-> "pending"]
    /\ timer = [t \in Tasks |-> "pending"]
    /\ poll = [t \in Tasks |-> "check"]
    /\ result = [t \in Tasks |-> None]
    /\ winner = [t \in Tasks |-> "none"]
    /\ work_result = [t \in Tasks |-> None]
    /\ op_event = NoEvent
    /\ stream_operations = [id \in StreamIds |-> 0]
    /\ stream_flag = [st \in Streams |-> FALSE]
    /\ stream_pc = [st \in Streams |-> "idle"]
    /\ stream_id = [st \in Streams |-> "none"]
    /\ received = [st \in Streams |-> <<>>]
    /\ emitted = [st \in Streams |-> <<>>]
    /\ removed = [st \in Streams |-> 0]
    /\ cause = [st \in Streams |-> "none"]
    /\ after_abort = [st \in Streams |-> 0]
    /\ block = <<>>
    /\ nchannels = 1
    /\ rate = DefaultSampleRate
    /\ buffer = None
    /\ encoded = None
    /\ decoded = None
    /\ capture_pc = "none"
    /\ capture_session = None
    /\ samples_buffer = <<>>
    /\ samples_poisoned = FALSE
    /\ last_emit_poisoned = FALSE
    /\ app_handle = FALSE
    /\ stream_alive = FALSE
    /\ halted_with = None
    /\ stop_outcome = None
    /\ capture_event = [type |-> "none"]
    /\ lock_writer = 0
    /\ lock_readers = 0
    /\ lock_pc = [o \in LockOps |-> "idle"]
    /\ lock_kind = [o \in LockOps |-> "none"]
    /\ abort_pc = "idle"
    /\ supported_configs \in UNION {[1..n -> ConfigRanges] : n \in 0..MaxConfigs}
    /\ requested \in [channels : ChannelCounts, sample_rate : Rates]
    /\ negotiation = None
    /\ downloading = {}
    /\ files = [p \in [model : {"whisper-tiny", "whisper-base"}, ext : {"bin", "downloading"}] |-> None]
    /\ dl_pc = [d \in 1..NumDownloads |-> "idle"]
    /\ dl_model = [d \in 1..NumDownloads |-> "none"]
    /\ dl_result = [d \in 1..NumDownloads |-> None]
    /\ fetched = [d \in 1..NumDownloads |-> 0]
    /\ dl_event = [type |-> "none"]
    /\ stored = [k \in {"a", "b"} |-> None]
    /\ cache = [k \in {"a", "b"} |-> None]
    /\ st_pc = [c \in 1..NumStorageCalls |-> "idle"]
    /\ st_call = [c \in 1..NumStorageCalls |-> [op |-> "none"]]
    /\ credentials = [c \in 1..NumStorageCalls |-> None]
    /\ latest = [k \in {"a", "b"} |-> None]
    /\ overlapped = FALSE
    /\ torn = FALSE
    /\ st_event = [type |-> "none"]

SpecNegotiate == InitNegotiate /\ [][NextNegotiate]_vars
SpecDownload == InitWrapper /\ [][NextDownload]_vars
SpecStorage == InitWrapper /\ [][NextStorage]_vars

\* ------------------------------------------------------------------------
\* Properties of the audio worker (SpecActor)
\* ------------------------------------------------------------------------
Processed(kind) == event.type = "processed" /\ event.kind = kind

\* C1: at most one recording session (one open capture stream) exists at
\* any time, and a StartRecording processed while a session is active
\* replies with an error and leaves the session, its stream and its sample
\* buffer as they were.
C1_SingleSession ==
    /\ open_streams = (IF active_recording = None THEN 0 ELSE 1)
    /\ (Processed("StartRecording") /\ event.before # None) =>
          /\ IsErr(event.result)
          /\ event.after = event.before
          /\ active_recording = event.before
          /\ open_streams = 1

C1_Witness ==
    /\ Processed("StartRecording")
    /\ event.before # None
    /\ event.before.val.samples # <<>>

\* the error kinds of the ResourceUnavailable class: the worker is unreachable
\* (start_recording's map_err) or the device or stream cannot be initialised
ResourceUnavailableKinds ==
    {SendFailed("StartRecording").kind, NoInputDevice.kind,
     OpenStream(None, 0, "build_err", 0).result.kind}

\* C2: the error of a StartRecording rejected because a session is active
\* has a kind of its own, different from the kinds returned when the worker
\* is unreachable or the device or stream cannot be initialised.
C2_AlreadyActiveIsDistinct ==
    (Processed("StartRecording") /\ event.before # None) =>
       /\ IsErr(event.result)
       /\ event.result.kind \notin ResourceUnavailableKinds

\* C3: StopRecording or CancelRecording with an id other than the active
\* session's fails with SessionMismatch and leaves the session active and
\* unchanged, buffer included; with no session both fail with
\* NoActiveSession and there is still no session.
C3_MismatchLeavesSession ==
    (Processed("StopRecording") \/ Processed("CancelRecording")) =>
       /\ (event.before # None
           /\ event.before.val.session.session_id # event.session_id) =>
             /\ event.result = SessionMismatch
             /\ event.after = event.before
             /\ active_recording = event.before
             /\ open_streams = 1
       /\ event.before = None =>
             /\ event.result = NoActiveSession
             /\ active_recording = None
             /\ open_streams = 0

C3_Witness ==
    /\ Processed("StopRecording")
    /\ event.before # None
    /\ event.before.val.session.session_id # event.session_id
    /\ event.before.val.samples # <<>>

\* C4: ForceReset carries no session id, replies true exactly when a session
\* was active when the worker processed it, and leaves no session; no
\* session appears until a StartRecording succeeds, and a StartRecording that
\* finds no session is not rejected as already in progress.
C4_Reply ==
    /\ Processed("ForceReset") =>
          /\ event.result = Bool(event.before # None)
          /\ active_recording = None
          /\ open_streams = 0
    /\ (Processed("StartRecording") /\ event.before = None) =>
          event.result # StreamInitFailed(AlreadyInProgress)

C4_StaysInactive ==
    (active_recording = None /\ active_recording' # None) =>
       /\ event'.type = "processed"
       /\ event'.kind = "StartRecording"
       /\ IsOk(event'.result)

C4_ForceReset == []C4_Reply /\ [][C4_StaysInactive]_vars

C4_Witness ==
    /\ Processed("ForceReset")
    /\ event.before # None
    /\ event.result = Bool(TRUE)

\* C5: once the worker has terminated, every command that was queued
\* unanswered and every command sent later returns an error to its caller.
C5_UnansweredReturnsError ==
    (event.type = "return" /\ ~event.answered) => IsErr(event.value)

\* ... and no such caller blocks: its recv() can return
C5_NoCallerBlocks ==
    worker = "terminated" =>
       \A c \in Callers : caller_pc[c] = "waiting" => resp[c] # Empty

\* ------------------------------------------------------------------------
\* Properties of with_abort_and_timeout and abort_operation (SpecWrapper)
\* ------------------------------------------------------------------------
Running(t) == task_pc[t] \in {"registered", "racing"}
Resolves(t) == Running(t) /\ task_pc'[t] = "resolved"
Returns(t) == task_pc[t] = "resolved" /\ task_pc'[t] = "idle"

\* C6: whichever arm produced the result (work with Ok or Err, the timeout,
\* the abort), when with_abort_and_timeout returns the registry has no entry
\* under its operation id.
C6_UnregisteredOnReturn ==
    op_event.type = "return" => active_operations[op_event.id] = 0

C6_Witness ==
    /\ op_event.type = "return"
    /\ op_event.value = ErrString("upstream error")

\* C7: if the race resolves while work is still pending and no abort was
\* signalled, the result is the timeout error carrying the invocation's
\* timeout_message; that error is what is returned, the registry then has no
\* entry under the id, and the dropped work never supplies a result.
C7_ResolveStep ==
    \A t \in Tasks :
       (Resolves(t) /\ work[t] = "pending" /\ ~abort_flag[t]) =>
          /\ result'[t] = ErrString(timeout_message(t))
          /\ winner'[t] = "timeout"
          /\ work_result'[t] = None

C7_ReturnStep ==
    \A t \in Tasks :
       (Returns(t) /\ winner[t] = "timeout") =>
          /\ op_event'.value = ErrString(timeout_message(t))
          /\ active_operations'[operation_id[t]] = 0

C7_WorkStaysDropped ==
    \A t \in Tasks :
       (task_pc[t] = "resolved" /\ task_pc'[t] = "resolved"
        /\ winner[t] = "timeout") =>
          /\ work'[t] = work[t]
          /\ work_result'[t] = None
          /\ result'[t] = result[t]

C7_Timeout ==
    [][C7_ResolveStep /\ C7_ReturnStep /\ C7_WorkStaysDropped]_vars

C7_Witness ==
    \E t \in Tasks :
       /\ task_pc[t] = "resolved"
       /\ winner[t] = "timeout"
       /\ work[t] = "pending"
       /\ ~abort_flag[t]

\* C8 as stated: an invocation whose flag was set by abort_operation while
\* its work was unresolved returns the abort error.
C8_AbortAlwaysWins ==
    [][\A t \in Tasks :
          (Resolves(t) /\ abort_flag[t] /\ work[t] = "pending") =>
             result'[t] = ErrString(AbortedByUser)]_vars

\* C8, amended: abort_operation(id) sets the flag of the invocation last
\* registered under id. Once the flag an invocation polls is set, its abort
\* loop does not complete another sleep without ending the race: the check
\* that follows the sleep in progress observes the flag, and the poll that
\* makes that check resolves the race, with the abort error unless work or
\* the timeout is ready at that poll too; the return leaves no entry under
\* the id.
C8_SignalStep ==
    (op_event'.type = "abort" /\ op_event'.found) =>
       /\ abort_flag'[active_operations[op_event'.id]]
       /\ operation_id[active_operations[op_event'.id]] = op_event'.id
       /\ Running(active_operations[op_event'.id])
            \/ task_pc[active_operations[op_event'.id]] = "resolved"

C8_CheckStep ==
    \A t \in Tasks :
       (Running(t) /\ abort_flag[t] /\ poll[t] = "check") =>
          \/ task_pc'[t] = "resolved"
          \/ task_pc'[t] = task_pc[t] /\ poll'[t] = "check"

C8_ResolveStep ==
    \A t \in Tasks :
       (Resolves(t) /\ abort_flag[t] /\ poll[t] = "check"
        /\ work[t] = "pending" /\ timer[t] = "pending") =>
          result'[t] = ErrString(AbortedByUser)

C8_ReturnStep ==
    \A t \in Tasks :
       Returns(t) =>
          /\ op_event'.value = result[t]
          /\ active_operations'[operation_id[t]] = 0

C8_AbortWithinOnePoll ==
    [][C8_SignalStep /\ C8_CheckStep /\ C8_ResolveStep /\ C8_ReturnStep]_vars

C8_Witness ==
    \E t \in Tasks :
       /\ task_pc[t] = "resolved"
       /\ winner[t] = "abort"
       /\ work[t] = "pending"
       /\ result[t] = ErrString(AbortedByUser)

\* C9: abort_operation on an id without a registry entry returns Ok and
\* changes neither the registry nor any flag, and applying it twice to the
\* same id leaves the state that applying it once leaves.
C9_Unknown ==
    \A id \in OpIds :
       LET once == Signal(active_operations, abort_flag, id) IN
       /\ active_operations[id] = 0 =>
             /\ once.registry = active_operations
             /\ once.flags = abort_flag
       /\ once.value = Ok(Unit)
       /\ Signal(once.registry, once.flags, id) = once

C9_AbortStep ==
    (op_event'.type = "abort" /\ ~op_event'.found) =>
       /\ active_operations' = active_operations
       /\ abort_flag' = abort_flag
       /\ op_event'.value = Ok(Unit)

C9_AbortUnknownIsNoOp == []C9_Unknown /\ [][C9_AbortStep]_vars

C9_Witness ==
    /\ op_event.type = "abort"
    /\ ~op_event.found
    /\ \E t \in Tasks : task_pc[t] = "racing" /\ ~abort_flag[t]

\* C10: the result of an invocation comes from exactly one arm of the
\* race, an arm that was ready at the poll that resolved it: the result of
\* work unmodified, the timeout error, or the abort error; when work is the
\* only ready arm (flag never set, timer not elapsed) the result is exactly
\* what work returned.
C10_OneOutcome ==
    \A t \in Tasks :
       task_pc[t] = "resolved" =>
          \/ /\ winner[t] = "work"
             /\ work[t] = "ready"
             /\ work_result[t] \in WorkResults
             /\ result[t] = work_result[t]
          \/ /\ winner[t] = "timeout"
             /\ work_result[t] = None
             /\ result[t] = ErrString(timeout_message(t))
          \/ /\ winner[t] = "abort"
             /\ abort_flag[t]
             /\ work_result[t] = None
             /\ result[t] = ErrString(AbortedByUser)

C10_ResolveStep ==
    \A t \in Tasks :
       /\ Resolves(t) => winner'[t] \in ReadyBranches(t)
       /\ (Resolves(t) /\ work[t] = "ready" /\ ~abort_flag[t]
           /\ timer[t] = "pending") =>
             /\ winner'[t] = "work"
             /\ result'[t] = work_result'[t]
       /\ Returns(t) => op_event'.value = result[t]

C10_RaceOutcome == []C10_OneOutcome /\ [][C10_ResolveStep]_vars

C10_Witness ==
    \E t \in Tasks :
       /\ task_pc[t] = "resolved"
       /\ winner[t] = "work"
       /\ ~abort_flag[t]
       /\ result[t] = ErrString("upstream error")

\* C11: for each of the four commands that use the wrapper the timeout
\* message differs from the abort message, so an invocation that resolved by
\* its timeout arm never carries the abort error and one that resolved by its
\* abort arm never carries a timeout error of any command.
C11_TimeoutAndAbortDiffer ==
    /\ \A i \in 1..Len(Commands) : Commands[i].timeout_message # AbortedByUser
    /\ \A t \in Tasks :
          task_pc[t] = "resolved" =>
             /\ winner[t] = "timeout" =>
                   /\ result[t] = ErrString(TaskCommand(t).timeout_message)
                   /\ result[t] # ErrString(AbortedByUser)
             /\ winner[t] = "abort" =>
                   \A i \in 1..Len(Commands) :
                      result[t] # ErrString(Commands[i].timeout_message)

C11_Witness ==
    \E t, u \in Tasks :
       /\ task_pc[t] = "resolved" /\ winner[t] = "timeout"
       /\ task_pc[u] = "resolved" /\ winner[u] = "abort"

\* ------------------------------------------------------------------------
\* Properties of the streaming relay (SpecStream)
\* ------------------------------------------------------------------------
Terminals(events) ==
    Cardinality({i \in 1..Len(events) : IsTerminal(events[i])})
CountOf(events, type) ==
    Cardinality({i \in 1..Len(events) : events[i].type = type})
Front(seq) == SubSeq(seq, 1, Len(seq) - 1)
IsFragment(item) == item.tag = "Some" /\ IsOk(item.val)
\* the content events of the fragments among items, in order
ChunksOf(items) ==
    LET frags == SelectSeq(items, IsFragment)
    IN  [i \in 1..Len(frags) |-> Chunk(frags[i].val.val)]
\* the relay of st has emitted its last event
TaskEnded(st) == stream_pc[st] \in {"unregistering", "finished"}
\* stream st reads an item in this step
Reads(st) ==
    /\ stream_pc[st] = "consuming"
    /\ Len(received'[st]) = Len(received[st]) + 1
\* stream st matches the item that passed the check of the flag
Matches(st) ==
    /\ stream_pc[st] = "forwarding"
    /\ stream_pc'[st] # "forwarding"

\* C12: a streaming operation never has more than one terminal event or more
\* than one removal of its registry entry, and once its task has ended it
\* has exactly one of each, the terminal event being its last event.
C12_OneTerminalOneRemoval ==
    \A st \in Streams :
       /\ Terminals(emitted[st]) <= 1
       /\ removed[st] <= 1
       /\ stream_pc[st] = "finished" =>
             /\ Terminals(emitted[st]) = 1
             /\ IsTerminal(Last(emitted[st]))
             /\ removed[st] = 1
             /\ stream_operations[stream_id[st]] # st

\* C13: a decode failure read with the flag unset ends the task with one
\* stream-error event; the events of the operation are then the content
\* events of the fragments read before it, in order, followed by that error,
\* with no stream-done; the task reads and emits nothing afterwards.
C13_Ended ==
    \A st \in Streams :
       cause[st] = "decode" =>
          /\ TaskEnded(st)
          /\ Last(received[st]) = Some(DecodeFailure)
          /\ emitted[st] =
                Append(ChunksOf(Front(received[st])), Error("Stream error"))
          /\ CountOf(emitted[st], "stream-done") = 0
          /\ CountOf(emitted[st], "stream-error") = 1
          /\ Len(ChunksOf(Front(received[st]))) = Len(received[st]) - 1

C13_Step ==
    \A st \in Streams :
       /\ (Reads(st) /\ Last(received'[st]) = Some(DecodeFailure)
           /\ ~stream_flag[st]) =>
             /\ stream_pc'[st] = "forwarding"
             /\ emitted'[st] = emitted[st]
       /\ (Matches(st) /\ Last(received[st]) = Some(DecodeFailure)) =>
             /\ cause'[st] = "decode"
             /\ emitted'[st] = Append(emitted[st], Error("Stream error"))
       /\ cause[st] = "decode" =>
             /\ received'[st] = received[st]
             /\ emitted'[st] = emitted[st]
             /\ cause'[st] = cause[st]

C13_DecodeFailureIsTerminal == []C13_Ended /\ [][C13_Step]_vars

C13_Witness ==
    \E st \in Streams :
       /\ received[st] = <<Some(Ok("A")), Some(Ok("B")), Some(DecodeFailure)>>
       /\ emitted[st] = <<Chunk("A"), Chunk("B"), Error("Stream error")>>

\* C14: when the relay reads the end of the stream, every item before it
\* was a fragment whose content event was emitted; the events of the
\* operation are those content events in stream order followed by one
\* stream-done, and there is no stream-error.
C14_Ended ==
    \A st \in Streams :
       cause[st] = "exhausted" =>
          /\ TaskEnded(st)
          /\ Last(received[st]) = None
          /\ \A i \in 1..(Len(received[st]) - 1) : IsFragment(received[st][i])
          /\ emitted[st] = Append(ChunksOf(Front(received[st])), Done)
          /\ CountOf(emitted[st], "stream-done") = 1
          /\ CountOf(emitted[st], "stream-error") = 0

C14_Step ==
    \A st \in Streams :
       (Reads(st) /\ Last(received'[st]) = None) =>
          /\ cause'[st] = "exhausted"
          /\ emitted'[st] = Append(emitted[st], Done)

C14_ExhaustionEmitsDone == []C14_Ended /\ [][C14_Step]_vars

C14_Witness ==
    \E st \in Streams :
       /\ received[st] = <<Some(Ok("A")), Some(Ok("B")), None>>
       /\ emitted[st] = <<Chunk("A"), Chunk("B"), Done>>
       /\ ~stream_flag[st]

\* C15: when the check in the loop finds the flag set, the item just read is
\* not forwarded, nothing more is read, and the events of the operation are
\* the content events forwarded before, followed by exactly one stream-done.
C15_AbortEmitsOneDone ==
    \A st \in Streams :
       cause[st] = "abort" =>
          /\ TaskEnded(st)
          /\ emitted[st] = Append(ChunksOf(Front(received[st])), Done)

\* ------------------------------------------------------------------------
\* Properties of the sample path (SpecCodec)
\* ------------------------------------------------------------------------
\* the samples of the i-th group of c in data
Group(data, c, i) == SubSeq(data, (i - 1) * c + 1, i * c)

\* C16: with c > 1 channels the callback appends, for the i-th group of c
\* consecutive samples of the block, one sample equal to the group's mean
\* (a block of whole groups appends one sample per group, and 2 channels
\* with [1.0, -1.0, 0.5, -0.5] give [0.0, 0.0]); with one channel it appends
\* the block unchanged.
C16_Downmix ==
    buffer # None =>
       LET out == buffer.val
           c == nchannels
       IN  IF c > 1
           THEN /\ Len(block) % c = 0 => Len(out) = Len(block) \div c
                /\ \A i \in 1..(Len(block) \div c) :
                      out[i].num * c = Sum(Group(block, c, i)) * out[i].den
                /\ block = <<2, -2, 1, -1>> =>
                      /\ Len(out) = 2
                      /\ \A i \in 1..2 : out[i].num = 0
           ELSE /\ Len(out) = Len(block)
                /\ \A i \in 1..Len(block) :
                      out[i].num = block[i] * out[i].den

C16_Witness ==
    /\ block = <<2, -2, 1, -1>>
    /\ nchannels = 2
    /\ buffer = Some(<<Rat(0, 2), Rat(0, 2)>>)

\* the 16-bit rounding of a sample in halves: the nearest 16-bit value of
\* sample * 32767, ties away from zero, clamped to the 16-bit range
Round16(n) ==
    LET nearest == IF n >= 0 THEN (n * 32767 + 1) \div 2
                   ELSE -(((-n) * 32767 + 1) \div 2)
    IN  Max(-32768, Min(32767, nearest))
Abs(x) == IF x >= 0 THEN x ELSE -x

ProcessedNow == event'.type = "processed"
SessionOf(active) == IF active = None THEN None ELSE Some(active.val.session)

\* C18: a send appends at the tail of the queue and the worker always
\* processes the head, on the state the previous command left, and removes
\* it; the session changes only by a processed command: it ends only by a
\* Stop or Cancel carrying its id, a ForceReset, or the end of the worker, so
\* a Stop carrying the id of the session it finds is not answered
\* NoActiveSession or SessionMismatch.
C18_QueueStep ==
    /\ Len(queue') > Len(queue) =>
          /\ Len(queue') = Len(queue) + 1
          /\ SubSeq(queue', 1, Len(queue)) = queue
          /\ ~ProcessedNow
    /\ ProcessedNow =>
          /\ queue # <<>>
          /\ event'.kind = Head(queue).kind
          /\ event'.caller = Head(queue).caller
          /\ event'.session_id = Head(queue).session_id
          /\ event'.before = active_recording
          /\ event'.after = active_recording'
          /\ queue' = IF worker' = "running" THEN Tail(queue) ELSE <<>>
    /\ (queue' # queue /\ Len(queue') <= Len(queue)) =>
          ProcessedNow \/ worker' = "terminated"

C18_SessionStep ==
    /\ SessionOf(active_recording') # SessionOf(active_recording) =>
          \/ worker' = "terminated"
          \/ /\ ProcessedNow
             /\ IF active_recording = None
                THEN event'.kind = "StartRecording"
                ELSE /\ active_recording' = None
                     /\ event'.kind \in
                           {"StopRecording", "CancelRecording", "ForceReset"}
                     /\ event'.kind # "ForceReset" =>
                           event'.session_id =
                              active_recording.val.session.session_id
    /\ (ProcessedNow /\ event'.kind = "StopRecording"
        /\ active_recording # None
        /\ active_recording.val.session.session_id = event'.session_id) =>
          event'.result \notin {NoActiveSession, SessionMismatch}

C18_SendOrder == [][C18_QueueStep /\ C18_SessionStep]_vars

C18_Witness ==
    /\ Processed("StopRecording")
    /\ event.before # None
    /\ IsOk(event.result)
    /\ queue # <<>>
    /\ Head(queue).kind = "StartRecording"

\* C19: the reply to a command goes into the response channel of the caller
\* that sent it and into no other, that channel was empty before, and the
\* value a caller's method returns is the one taken from its own channel;
\* while a queued command waits the worker can always take a step, whether
\* or not earlier replies have been received.
C19_ReplyStep ==
    /\ (ProcessedNow /\ ~event'.panicked) =>
          /\ caller_pc[event'.caller] = "waiting"
          /\ caller_call[event'.caller] = event'.kind
          /\ resp[event'.caller] = Empty
          /\ resp' = [resp EXCEPT ![event'.caller] = Msg(event'.result)]
    /\ (event'.type = "return" /\ event'.answered) =>
          /\ resp[event'.caller] = Msg(event'.value)
          /\ event'.call = caller_call[event'.caller]
          /\ \A c \in Callers \ {event'.caller} : resp'[c] = resp[c]
    /\ \A c \in Callers :
          (resp[c] # Empty /\ resp'[c] # resp[c]) =>
             /\ resp'[c] = Empty
             /\ event'.type = "return"
             /\ event'.caller = c

C19_WorkerGoesOn ==
    (worker = "running" /\ queue # <<>>) => ENABLED audio_thread_main

C19_OwnReply == []C19_WorkerGoesOn /\ [][C19_ReplyStep]_vars

C19_Witness ==
    /\ event.type = "processed"
    /\ event.caller = 2
    /\ resp[2] = Msg(event.result)
    /\ caller_pc[1] = "waiting"
    /\ resp[1].tag = "msg"
    /\ resp[1] # resp[2]

\* C20: a Stop or Cancel carrying the id of the active session leaves no
\* session and no open stream, whether Stop's encoding succeeds or fails;
\* Cancel answers Ok(()) and Stop answers the recording or the encoding
\* error; a StartRecording that finds no session is never answered
\* "already in progress".
C20_MatchingEndsSession ==
    /\ ((Processed("StopRecording") \/ Processed("CancelRecording"))
        /\ event.before # None
        /\ event.before.val.session.session_id = event.session_id) =>
          /\ event.after = None
          /\ active_recording = None
          /\ open_streams = 0
          /\ Processed("CancelRecording") => event.result = Ok(Unit)
          /\ (Processed("StopRecording") /\ ~event.panicked) =>
                \/ event.result = EncodingError("hound")
                \/ /\ IsOk(event.result)
                   /\ event.result.val.session_id = event.session_id
                   /\ Len(event.result.val.audio_data.data) =
                         Len(event.before.val.samples)
    /\ (Processed("StartRecording") /\ event.before = None) =>
          \/ IsOk(event.result) /\ active_recording # None
          \/ /\ IsErr(event.result)
             /\ event.result.msg # AlreadyInProgress
             /\ active_recording = None

C20_Witness ==
    /\ Processed("StopRecording")
    /\ event.before # None
    /\ event.result = EncodingError("hound")
    /\ active_recording = None

\* ------------------------------------------------------------------------
\* C21: on a Stop with the session's id the capture stream is dropped
\* before the buffer is read, so the callback appends nothing while or
\* after the buffer is read; the result holds every sample appended before
\* the drop, in order, with the session's sample rate and the requested
\* session id.
C21_Result == stop_outcome.val.result

C21_NoAppendAfterHalt ==
    (capture_pc \in {"halted", "stopped"} /\ capture_pc' # "recording")
        => samples_buffer' = samples_buffer

C21_Drained ==
    (stop_outcome # None /\ C21_Result # None /\ IsOk(C21_Result))
        => /\ halted_with # None
           /\ C21_Result.val.audio_data.data =
                  [i \in 1..Len(halted_with.val) |->
                      SampleToI16(halted_with.val[i])]
           /\ C21_Result.val.sample_rate = capture_session.sample_rate
           /\ C21_Result.val.audio_data.sample_rate = capture_session.sample_rate
           /\ C21_Result.val.session_id = stop_outcome.val.session_id

C21_HaltBeforeDrain ==
    []C21_Drained /\ [][C21_NoAppendAfterHalt]_vars

C21_Witness ==
    /\ stop_outcome # None
    /\ C21_Result # None
    /\ IsOk(C21_Result)
    /\ halted_with = Some(<<2, 1>>)

\* ------------------------------------------------------------------------
\* C22: when the samples mutex is poisoned, the callback and the Stop path
\* still obtain the buffer: a callback in which nothing new goes wrong
\* appends its sample, and Stop returns every sample accumulated so far.
C22_CallbackAppends ==
    (/\ capture_event'.type = "callback"
     /\ samples_poisoned
     /\ capture_event'.fault = "none")
        => /\ Len(samples_buffer') = Len(samples_buffer) + 1
           /\ Front(samples_buffer') = samples_buffer

C22_StopReturnsAll ==
    (capture_event'.type = "drain" /\ samples_poisoned)
        => /\ stop_outcome'.val.result # None
           /\ \/ stop_outcome'.val.result = EncodingError("hound")
              \/ /\ IsOk(stop_outcome'.val.result)
                 /\ stop_outcome'.val.result.val.audio_data.data =
                        [i \in 1..Len(samples_buffer) |->
                            SampleToI16(samples_buffer[i])]

C22_PoisonRecovered ==
    [][C22_CallbackAppends /\ C22_StopReturnsAll]_vars

\* the half of C22 about Stop, on its own
C22_StopHalf ==
    [][C22_StopReturnsAll]_vars

\* ------------------------------------------------------------------------
\* C23: the wrapper inserts operation_id with a fresh, unsignalled flag
\* before work is first polled, so abort_operation(id) issued at any moment
\* after work has started finds the entry and sets the flag that this
\* invocation polls.
\* As stated: every abort_operation(id) while an invocation with that id
\* runs finds an entry and sets that invocation's flag
C23_AbortReachesInvocation ==
    [][\A t \in Tasks :
         (/\ Running(t)
          /\ op_event'.type = "abort"
          /\ op_event'.id = operation_id[t])
            => (op_event'.found /\ abort_flag'[t])]_vars

\* another invocation registers or unregisters the id of t in this step
C23_SameIdStep(t) ==
    \E u \in Tasks \ {t} :
       \/ task_pc[u] = "idle" /\ operation_id'[u] = operation_id[t]
       \/ Returns(u) /\ operation_id[u] = operation_id[t]

\* the entry is inserted, with an unset flag, before the first poll of work
C23_RegisterStep ==
    task_pc' # task_pc =>
    \A t \in Tasks :
       (task_pc[t] = "idle" /\ task_pc'[t] # "idle")
          => /\ task_pc'[t] = "registered"
             /\ work'[t] = "pending"
             /\ active_operations'[operation_id'[t]] = t
             /\ ~abort_flag'[t]

\* the entry stays while the invocation runs, unless another invocation
\* registers or unregisters the same id
C23_EntryStays ==
    (active_operations' # active_operations \/ operation_id' # operation_id) =>
    \A t \in Tasks :
       (/\ task_pc[t] # "idle"
        /\ task_pc'[t] # "idle"
        /\ active_operations[operation_id[t]] = t
        /\ ~C23_SameIdStep(t))
          => /\ operation_id'[t] = operation_id[t]
             /\ active_operations'[operation_id[t]] = t

\* an abort_operation(id) that finds the invocation's entry sets the flag
\* the invocation's abort loop loads
C23_AbortStep ==
    op_event'.type = "abort" =>
    \A t \in Tasks :
       (/\ task_pc[t] # "idle"
        /\ active_operations[operation_id[t]] = t
        /\ op_event'.id = operation_id[t])
          => (op_event'.found /\ abort_flag'[t])

C23_RegisteredBeforePolled ==
    [][C23_RegisterStep /\ C23_EntryStays /\ C23_AbortStep]_vars

C23_Witness ==
    /\ op_event.type = "abort"
    /\ op_event.found
    /\ \E t \in Tasks :
         /\ task_pc[t] = "racing"
         /\ work[t] = "pending"
         /\ operation_id[t] = op_event.id
         /\ active_operations[op_event.id] = t
         /\ abort_flag[t]
         /\ \A u \in Tasks \ {t} : operation_id[u] # op_event.id

\* ------------------------------------------------------------------------
\* C24: abort_operation(id) changes nothing but the flag registered under
\* id: it inserts and removes no entry and leaves the flag of every other
\* identifier as it is, so an operation running under another identifier
\* is not aborted by it.
C24_OnlyThatFlag ==
    op_event'.type = "abort" =>
       /\ active_operations' = active_operations
       /\ \A t \in Tasks :
            abort_flag'[t] # abort_flag[t]
               => /\ active_operations[op_event'.id] = t
                  /\ abort_flag'[t]
       /\ \A t \in Tasks :
            (task_pc[t] # "idle" /\ operation_id[t] # op_event'.id)
               => abort_flag'[t] = abort_flag[t]
       /\ UNCHANGED <<task_pc, operation_id, work, timer, poll, result,
                      winner, work_result>>

C24_AbortFrame == [][C24_OnlyThatFlag]_vars

C24_Witness ==
    /\ op_event.type = "abort"
    /\ op_event.found
    /\ \E t, u \in Tasks :
         /\ Running(t) /\ Running(u)
         /\ operation_id[t] = op_event.id
         /\ operation_id[u] # op_event.id
         /\ active_operations[operation_id[u]] = u
         /\ abort_flag[t]
         /\ ~abort_flag[u]

\* ------------------------------------------------------------------------
\* C25: the identifiers in the registry are identifiers of operations in
\* flight (wrapper invocations that have not returned, streaming tasks that
\* have not emitted their terminal event); once every started operation
\* has finished, the registry is empty.
\* As stated, for the streaming tasks
C25_EntriesBeforeTerminal ==
    /\ \A id \in StreamIds :
          stream_operations[id] # 0 =>
             /\ stream_id[stream_operations[id]] = id
             /\ Terminals(emitted[stream_operations[id]]) = 0
    /\ (\A st \in Streams : Terminals(emitted[st]) > 0 \/ stream_pc[st] = "idle")
          => \A id \in StreamIds : stream_operations[id] = 0

\* an entry of the wrappers' registry belongs to an invocation that has
\* not returned
C25_WrapperEntriesLive ==
    /\ \A id \in OpIds :
          active_operations[id] # 0 =>
             /\ task_pc[active_operations[id]] # "idle"
             /\ operation_id[active_operations[id]] = id
    /\ (\A t \in Tasks : task_pc[t] = "idle")
          => \A id \in OpIds : active_operations[id] = 0

\* an entry of the streams' registry belongs to a task that has not ended:
\* it is removed in the task's last step, after the terminal event
C25_StreamEntriesLive ==
    /\ \A id \in StreamIds :
          stream_operations[id] # 0 =>
             /\ stream_pc[stream_operations[id]]
                   \in {"establishing", "consuming", "forwarding",
                        "unregistering"}
             /\ stream_id[stream_operations[id]] = id
    /\ (\A st \in Streams : stream_pc[st] \in {"idle", "finished"})
          => \A id \in StreamIds : stream_operations[id] = 0

C25_EntriesLive == C25_WrapperEntriesLive /\ C25_StreamEntriesLive

C25_Witness ==
    \E st \in Streams :
       /\ stream_pc[st] = "finished"
       /\ Len(received[st]) > 0
       /\ removed[st] = 1
       /\ \A id \in StreamIds : stream_operations[id] = 0

\* ------------------------------------------------------------------------
\* C26: the unregister step runs on every exit of the wrapper: whenever an
\* invocation ends, by returning or by being abandoned before the race
\* resolves, the registry holds no entry for it afterwards.
C26_Ends(t) == task_pc[t] # "idle" /\ task_pc'[t] = "idle"

C26_UnregisteredOnEveryExit ==
    [][\A t \in Tasks :
         C26_Ends(t) => active_operations'[operation_id[t]] # t]_vars

\* ------------------------------------------------------------------------
\* C27: the registry lock is held only for the single insert, the single
\* lookup-and-store or the single remove: no operation holds it while it
\* awaits work, the timer, the poll sleep or the next stream item, so the
\* holder can always release it and abort_operation can acquire it while
\* operations are in flight.
C27_NotHeldAcrossAwait ==
    \A o \in LockOps :
       /\ lock_pc[o] \in {"idle", "awaiting", "finishing"} => lock_writer # o
       /\ lock_writer = o =>
             /\ lock_pc[o] \in {"inserting", "removing"}
             /\ ENABLED (EndInsert(o) \/ EndRemove(o))

C27_AbortCanAcquire ==
    (/\ abort_pc = "idle"
     /\ \A o \in LockOps : lock_pc[o] \in {"idle", "awaiting", "finishing"})
        => ENABLED AbortAcquire

C27_LockScope == C27_NotHeldAcrossAwait /\ C27_AbortCanAcquire

C27_Witness ==
    /\ abort_pc = "reading"
    /\ lock_readers = 1
    /\ \E o, q \in LockOps :
         /\ lock_pc[o] = "awaiting" /\ lock_kind[o] = "wrapper"
         /\ lock_pc[q] = "awaiting" /\ lock_kind[q] = "stream"

\* ------------------------------------------------------------------------
\* C28: when the establishment of the stream times out, the relay emits one
\* stream-error, removes the registry entry and never enters the
\* consumption loop: no content event and no stream-done is emitted.
C28_TimeoutMessage ==
    "Request timeout: Failed to establish connection to AI provider"

C28_TimedOut ==
    \A st \in Streams :
       cause[st] = "establish_timeout" =>
          /\ TaskEnded(st)
          /\ received[st] = <<>>
          /\ emitted[st] = <<Error(C28_TimeoutMessage)>>
          /\ CountOf(emitted[st], "stream-chunk") = 0
          /\ CountOf(emitted[st], "stream-done") = 0
          /\ stream_pc[st] = "finished" =>
                /\ removed[st] = 1
                /\ \A id \in StreamIds : stream_operations[id] # st

C28_TimeoutStep ==
    \A st \in Streams :
       /\ cause'[st] = "establish_timeout" =>
             \/ cause[st] = "establish_timeout"
             \/ stream_pc[st] = "establishing" /\ emitted[st] = <<>>
       /\ cause[st] = "establish_timeout" =>
             /\ stream_pc'[st] \notin {"consuming", "forwarding"}
             /\ emitted'[st] = emitted[st]
             /\ received'[st] = received[st]
             /\ cause'[st] = cause[st]
             /\ stream_pc[st] = "unregistering" =>
                   ENABLED Unregister(st)

C28_EstablishTimeout == []C28_TimedOut /\ [][C28_TimeoutStep]_vars

C28_Witness ==
    \E st \in Streams :
       /\ cause[st] = "establish_timeout"
       /\ stream_pc[st] = "finished"
       /\ removed[st] = 1
       /\ emitted[st] = <<Error(C28_TimeoutMessage)>>

\* ------------------------------------------------------------------------
\* C29: all content events of a streaming operation come before its
\* terminal event: after a stream-done or stream-error nothing more is
\* emitted for it, neither a content event nor another terminal event.
C29_TerminalIsLast ==
    \A st \in Streams :
       \A i \in 1..(Len(emitted[st]) - 1) : ~IsTerminal(emitted[st][i])

\* the same, leaving out the operations ended by the abort check of the loop
C29_TerminalIsLastUnlessAborted ==
    \A st \in Streams :
       cause[st] # "abort" =>
          \A i \in 1..(Len(emitted[st]) - 1) : ~IsTerminal(emitted[st][i])

\* ------------------------------------------------------------------------
\* C30: a streaming operation goes Established -> Streaming -> {Done,
\* Aborted, Errored}: it reads fragments only after the connection setup
\* has succeeded, and stream-done, whether for the end of the stream or
\* for the abort flag, is emitted only by an operation whose setup has
\* succeeded.
C30_SetupSucceeded(st) ==
    \/ stream_pc[st] \in {"consuming", "forwarding"}
    \/ cause[st] \in {"exhausted", "abort", "emit_failed", "decode"}

C30_DoneOnlyFromStreaming ==
    \A st \in Streams :
       /\ received[st] # <<>> => C30_SetupSucceeded(st)
       /\ CountOf(emitted[st], "stream-done") > 0 => C30_SetupSucceeded(st)

\* fragments are read only after the setup has succeeded; stream-done is
\* emitted after the setup has succeeded or, with nothing read and nothing
\* else emitted, by the abort arm of the establishment; either abort
\* outcome needs the flag to be set
C30_Outcomes ==
    \A st \in Streams :
       /\ received[st] # <<>> => C30_SetupSucceeded(st)
       /\ CountOf(emitted[st], "stream-done") > 0 =>
             \/ C30_SetupSucceeded(st)
             \/ /\ cause[st] = "establish_abort"
                /\ received[st] = <<>>
                /\ emitted[st] = <<Done>>
       /\ cause[st] \in {"abort", "establish_abort"} => stream_flag[st]

C30_Transitions ==
    \A st \in Streams :
       /\ stream_pc'[st] = "consuming" =>
             stream_pc[st] \in {"establishing", "consuming", "forwarding"}
       /\ stream_pc'[st] = "forwarding" =>
             stream_pc[st] \in {"consuming", "forwarding"}
       /\ (stream_pc'[st] = "unregistering" /\ stream_pc[st] # "unregistering")
             => stream_pc[st] \in {"establishing", "consuming", "forwarding"}
       /\ (stream_pc[st] = "establishing" /\ stream_pc'[st] = "unregistering")
             => cause'[st] \in {"establish_failed", "establish_timeout",
                                "establish_abort"}
       /\ (stream_pc[st] = "consuming" /\ stream_pc'[st] = "unregistering")
             => cause'[st] \in {"exhausted", "abort"}
       /\ (stream_pc[st] = "forwarding" /\ stream_pc'[st] = "unregistering")
             => cause'[st] \in {"emit_failed", "decode"}

C30_StateMachine == []C30_Outcomes /\ [][C30_Transitions]_vars

C30_Witness ==
    \E st \in Streams :
       /\ cause[st] = "establish_abort"
       /\ stream_flag[st]
       /\ stream_pc[st] = "finished"
       /\ emitted[st] = <<Done>>

\* ------------------------------------------------------------------------
\* Properties of the negotiation (SpecNegotiate)
\* ------------------------------------------------------------------------
\* the indices of the configurations that match the request exactly, and
\* of the single-channel ones
ExactIndices ==
    {i \in 1..Len(supported_configs) :
        /\ supported_configs[i].channels = requested.channels
        /\ supported_configs[i].min_sample_rate <= requested.sample_rate
        /\ requested.sample_rate <= supported_configs[i].max_sample_rate}
MonoIndices ==
    {i \in 1..Len(supported_configs) : supported_configs[i].channels = 1}
\* config is the element of supported_configs with the least index in among
FirstOf(among, config) ==
    \E i \in among : /\ \A j \in among : i <= j
                     /\ config = supported_configs[i]

\* C31: with a device whose enumeration is the same each time it is asked,
\* the configuration chosen is the first that has the requested channel
\* count and a rate range containing the requested rate; if there is none,
\* the first single-channel one; if there is none, the first of any kind;
\* and with no configuration at all Start fails.
C31_ThreeTiers ==
    (negotiation # None /\ negotiation.val.enumerations = <<TRUE, TRUE>>) =>
       LET res == negotiation.val.result IN
       IF ExactIndices # {}
       THEN IsOk(res) /\ FirstOf(ExactIndices, res.val.supported_config)
       ELSE IF MonoIndices # {}
       THEN IsOk(res) /\ FirstOf(MonoIndices, res.val.supported_config)
       ELSE IF Len(supported_configs) > 0
       THEN IsOk(res) /\ res.val.supported_config = supported_configs[1]
       ELSE res = StreamInitFailed("No suitable audio config found")

\* a request that only the second tier serves, with a configuration of
\* another kind in front
C31_Witness ==
    /\ negotiation # None
    /\ negotiation.val.enumerations = <<TRUE, TRUE>>
    /\ ExactIndices = {}
    /\ Len(supported_configs) = 2
    /\ supported_configs[1].channels = 2
    /\ MonoIndices = {2}
    /\ IsOk(negotiation.val.result)

\* ------------------------------------------------------------------------
\* C32: the sample rate negotiated lies inside the range of rates of the
\* configuration chosen, for every request and every device, also when the
\* range's minimum is above 48000 Hz.
C32_RateInRange ==
    (negotiation # None /\ IsOk(negotiation.val.result)) =>
       LET res == negotiation.val.result.val IN
       /\ res.supported_config.min_sample_rate <= res.sample_rate
       /\ res.sample_rate <= res.supported_config.max_sample_rate

\* the same for the configurations whose minimum is at most 48000 Hz
C32_RateInRangeBelowCap ==
    (/\ negotiation # None
     /\ IsOk(negotiation.val.result)
     /\ negotiation.val.result.val.supported_config.min_sample_rate
           <= FallbackRateCap) =>
       LET res == negotiation.val.result.val IN
       /\ res.supported_config.min_sample_rate <= res.sample_rate
       /\ res.sample_rate <= res.supported_config.max_sample_rate

\* ------------------------------------------------------------------------
\* C33: from its registration until its own cleanup every in-flight
\* operation has its identifier mapped to the very flag it polls, also
\* when a second operation registers or finishes under the same identifier
\* while the first is running.
C33_AlwaysMapped ==
    \A t \in Tasks :
       task_pc[t] # "idle" => active_operations[operation_id[t]] = t

\* u registers under id in this step; u returns, having registered under id
C33_Registers(u, id) ==
    task_pc[u] = "idle" /\ task_pc'[u] # "idle" /\ operation_id'[u] = id
C33_Finishes(u, id) ==
    task_pc[u] # "idle" /\ task_pc'[u] = "idle" /\ operation_id[u] = id

\* the registry changes only by a registration, which maps the id to the
\* registering invocation whatever was there, and by a return, which
\* removes the id whatever was there; a running invocation loses its
\* mapping only to another invocation's registration or return under its id
C33_LastWriterWins ==
    /\ task_pc' # task_pc =>
          \A u \in Tasks, id \in OpIds :
             /\ C33_Registers(u, id) => active_operations'[id] = u
             /\ C33_Finishes(u, id) => active_operations'[id] = 0
    /\ active_operations' # active_operations =>
          \A t \in Tasks :
             (/\ task_pc[t] # "idle"
              /\ task_pc'[t] # "idle"
              /\ active_operations[operation_id[t]] = t
              /\ active_operations'[operation_id[t]] # t)
                => \E u \in Tasks \ {t} :
                      \/ C33_Registers(u, operation_id[t])
                      \/ C33_Finishes(u, operation_id[t])

C33_MappedUnlessShared == [][C33_LastWriterWins]_vars

\* an invocation is running with no entry, the other one having returned
\* under the same id
C33_Witness ==
    /\ op_event.type = "return"
    /\ \E t \in Tasks :
         /\ task_pc[t] = "racing"
         /\ operation_id[t] = op_event.id
         /\ active_operations[op_event.id] = 0

\* ------------------------------------------------------------------------
\* C34: if abort_operation is called for a streaming operation while its
\* connection is still being established, the relay emits exactly one
\* stream-done event, no stream-error event and no content event, removes
\* the registry entry, and never consumes the stream.
\* As stated: once the flag is set during the establishment, the task
\* leaves the establishment by the abort arm, with stream-done alone
C34_AbortDuringSetupEndsInDone ==
    [][\A st \in Streams :
          (/\ stream_pc[st] = "establishing"
           /\ stream_flag[st]
           /\ stream_pc'[st] # "establishing")
             => /\ cause'[st] = "establish_abort"
                /\ emitted'[st] = <<Done>>]_vars

\* the establishment is left by its abort arm
C34_AbortArmTaken(st) ==
    Establish(st) /\ cause'[st] = "establish_abort"

\* with the flag set during the establishment the abort arm can be taken;
\* a task that took it has emitted stream-done alone, has read nothing
\* from the stream, and removes its entry once and is over
C34_AbortArm ==
    \A st \in Streams :
       /\ (stream_pc[st] = "establishing" /\ stream_flag[st])
             => ENABLED C34_AbortArmTaken(st)
       /\ cause[st] = "establish_abort" =>
             /\ stream_flag[st]
             /\ emitted[st] = <<Done>>
             /\ received[st] = <<>>
             /\ stream_pc[st] \in {"unregistering", "finished"}
             /\ removed[st] = IF stream_pc[st] = "finished" THEN 1 ELSE 0
             /\ stream_pc[st] = "finished"
                   => stream_operations[stream_id[st]] # st

\* the abort arm alone ends the establishment, and ends the task: the
\* other arms remain possible while the flag is set, and the task goes on
\* to consume only by the arm of the stream
C34_SetupStep ==
    \A st \in Streams :
       (stream_pc[st] = "establishing" /\ stream_pc'[st] # "establishing")
         => /\ cause'[st] = "establish_abort" => stream_flag[st]
            /\ stream_pc'[st] = "consuming" <=> cause'[st] = "none"
            /\ stream_pc'[st] = "consuming" => emitted'[st] = <<>>

C34_AbortArmEndsInDone == []C34_AbortArm /\ [][C34_SetupStep]_vars

\* the abort arm was taken and the entry is about to be removed
C34_Witness ==
    \E st \in Streams :
       /\ stream_pc[st] = "unregistering"
       /\ cause[st] = "establish_abort"
       /\ stream_operations[stream_id[st]] = st

\* ------------------------------------------------------------------------
\* C35: after abort_operation(id) has returned for a stream in the
\* consumption loop, at most one further content event is emitted for that
\* stream, and the relay eventually emits its terminal event and
\* unregisters, provided the underlying stream eventually yields another
\* item or ends.
\* one content event at most is emitted with the flag set, the one whose
\* fragment had passed the check; a relay that is over with the flag set
\* has emitted a terminal event and removed its entry
C35_AtMostOneAfterAbort ==
    \A st \in Streams :
       /\ after_abort[st] <= 1
       /\ after_abort[st] = 1 => stream_pc[st] # "forwarding"
       /\ (stream_flag[st] /\ stream_pc[st] = "finished") =>
             /\ Terminals(emitted[st]) >= 1
             /\ removed[st] = 1

\* the flag of a stream in the loop is set; its relay is over
C35_Aborted(st) ==
    stream_flag[st] /\ stream_pc[st] \in {"consuming", "forwarding"}

C35_Over(st) ==
    /\ stream_pc[st] = "finished"
    /\ Terminals(emitted[st]) >= 1
    /\ IsTerminal(Last(emitted[st]))
    /\ removed[st] = 1

C35_AbortEndsRelay ==
    /\ []C35_AtMostOneAfterAbort
    /\ \A st \in Streams : C35_Aborted(st) ~> C35_Over(st)

\* the flag was set between the check and the forwarding of a fragment:
\* that fragment was forwarded, and the relay is over
C35_Witness ==
    \E st \in Streams :
       /\ after_abort[st] = 1
       /\ cause[st] = "abort"
       /\ stream_pc[st] = "finished"

\* ------------------------------------------------------------------------
\* Properties of the downloads (SpecDownload)
\* ------------------------------------------------------------------------
\* the calls of download_model that are past the contains check for
\* model_id and have not yet removed it
InFlight(model_id) ==
    {d \in Downloads : dl_pc[d] # "idle" /\ dl_model[d] = model_id}

\* download_model by d accepts model_id
C37_Accepts(d, model_id) ==
    /\ download_model(d)
    /\ dl_event'.type = "accepted"
    /\ dl_event'.model = model_id

\* C37: at most one download is in flight per model id: a call made while
\* the id is in the downloading set fails with 'already being downloaded'
\* and leaves the set unchanged; when a download finishes, with Ok or with
\* an error, its id is removed from the set, and a later download of that
\* id is accepted.
C37_InFlight ==
    \A model_id \in ModelIds :
       /\ Cardinality(InFlight(model_id)) <= 1
       /\ model_id \in downloading <=> InFlight(model_id) # {}
       /\ model_id \notin downloading =>
             \A d \in Downloads :
                dl_pc[d] = "idle" => ENABLED C37_Accepts(d, model_id)

C37_Step ==
    dl_event' # dl_event =>
       /\ (dl_event'.type = "rejected" /\ dl_event'.model \in ModelIds) =>
             /\ dl_event'.model \in downloading
             /\ downloading' = downloading
             /\ dl_event'.result =
                   ErrString("Model is already being downloaded")
             /\ dl_pc'[dl_event'.d] = "idle"
       /\ dl_event'.type = "accepted" =>
             /\ dl_event'.model \notin downloading
             /\ downloading' = downloading \cup {dl_event'.model}
       /\ dl_event'.type = "returned" =>
             /\ dl_event'.model \in downloading
             /\ downloading' = downloading \ {dl_event'.model}
       /\ dl_event'.type \notin {"accepted", "returned"} =>
             downloading' = downloading

C37_OneDownloadPerModel == []C37_InFlight /\ [][C37_Step]_vars

\* a call was rejected while the other caller downloads the same model
C37_Witness ==
    /\ dl_event.type = "rejected"
    /\ dl_event.model \in downloading
    /\ \E d \in Downloads \ {dl_event.d} :
          dl_pc[d] = "writing" /\ dl_model[d] = dl_event.model

\* a download that ended with an error has been removed and the same model
\* is being downloaded again
C37_WitnessRetry ==
    /\ dl_event.type = "accepted"
    /\ files[temp_path(model_path(dl_event.model))] = Some(<<1>>)
    /\ files[model_path(dl_event.model)] = None

\* ------------------------------------------------------------------------
\* C38: a model file exists at its final path only after a download has
\* written and flushed all bytes: the data goes to a '.downloading' file
\* that is renamed at the end, so a download that fails part-way never
\* makes list_models or get_model_file_path report the model as downloaded.
C38_FinalIsComplete ==
    \A model_id \in ModelIds :
       /\ files[model_path(model_id)] \in {None, Some(Body)}
       /\ get_model_file_path(model_id) # None
             => files[model_path(model_id)] = Some(Body)
       /\ get_model_file_path(Uncatalogued) = None

\* a step of download_file that fails, and the return of a failed
\* download, leave the final path as it was; a final file appears only by
\* the rename of a temporary file that holds the whole body
C38_Step ==
    dl_event' # dl_event =>
       \A model_id \in ModelIds :
          LET dest == model_path(model_id) IN
          /\ (/\ dl_event'.type \in {"request", "chunk", "finalize"}
              /\ dl_event'.step # "ok") => files'[dest] = files[dest]
          /\ dl_event'.type \in {"request", "chunk", "returned", "accepted",
                                  "rejected"} => files'[dest] = files[dest]
          /\ (files[dest] = None /\ files'[dest] # None) =>
                /\ dl_event' = [type |-> "finalize",
                                d |-> dl_event'.d,
                                model |-> model_id, step |-> "ok"]
                /\ files[temp_path(dest)] = Some(Body)
                /\ files'[temp_path(dest)] = None

C38_NoPartialModel == []C38_FinalIsComplete /\ [][C38_Step]_vars

\* a download has failed after writing a part of the body: the partial
\* data is in the temporary file and the model is not reported
C38_Witness ==
    /\ dl_event.type = "returned"
    /\ IsErr(dl_event.result)
    /\ files[temp_path(model_path(dl_event.model))] = Some(<<1>>)
    /\ get_model_file_path(dl_event.model) = None

\* ------------------------------------------------------------------------
\* C36: if StartRecording fails for any reason (no input device, no usable
\* configuration, stream build or play failure), no session becomes active
\* and the worker's state is the same as before the command.
\* the errors of start_recording_internal, by the step that fails
C36_Failures ==
    {OpenStream(None, 0, dev, 0).result :
        dev \in {"no_device", "configs_err", "no_config", "build_err",
                 "play_err"}}
      \cup {StreamInitFailed(AlreadyInProgress)}

C36_FailedStartStep ==
    (ProcessedNow /\ event'.kind = "StartRecording") =>
       /\ IsErr(event'.result) <=> event'.result \in C36_Failures
       /\ IsErr(event'.result) =>
             /\ active_recording' = active_recording
             /\ open_streams' = open_streams
             /\ worker' = worker
             /\ active_recording = None => active_recording' = None
       /\ IsOk(event'.result) =>
             /\ active_recording = None
             /\ active_recording' # None
             /\ active_recording'.val.session = event'.result.val

C36_FailedStartLeavesState == [][C36_FailedStartStep]_vars

\* the stream was built and failed to play, with no session before
C36_Witness ==
    /\ Processed("StartRecording")
    /\ event.result = StreamInitFailed("play")
    /\ event.before = None
    /\ active_recording = None
    /\ open_streams = 0

\* ------------------------------------------------------------------------
\* C40: the worker never stops because a reply could not be delivered:
\* when the caller of a command has already dropped its reply receiver, the
\* command's effect on the session state is still applied and the worker
\* continues with the next queued command.
\* what the handler of cmd can make of the state
C40_Effects(cmd) ==
    CASE cmd.kind = "StartRecording" ->
           {start_recording_internal(active_recording, open_streams, dev, now) :
               dev \in DeviceOutcomes, now \in Times}
      [] cmd.kind = "StopRecording" ->
           {stop_recording_internal(active_recording, open_streams,
                                    cmd.session_id, now, enc_ok,
                                    overflow_checks) :
               enc_ok \in BOOLEAN, now \in Times}
      [] cmd.kind = "CancelRecording" ->
           {cancel_recording_internal(active_recording, open_streams,
                                      cmd.session_id)}
      [] OTHER -> {force_reset_internal(active_recording, open_streams)}

C40_UndeliveredStep ==
    /\ (ProcessedNow /\ event'.caller = 0) =>
          /\ Head(queue).caller = 0
          /\ \E out \in C40_Effects(Head(queue)) :
                /\ active_recording' = out.active
                /\ open_streams' = out.open
                /\ event'.result = out.result
                /\ event'.panicked = out.panicked
          /\ ~event'.panicked =>
                /\ worker' = "running"
                /\ queue' = Tail(queue)
                /\ resp' = resp
    /\ (worker = "running" /\ worker' # "running") =>
          \/ ProcessedNow /\ event'.panicked
          \/ ~ProcessedNow /\ (queue = <<>> \/ Head(queue).kind = "Shutdown")

\* a command without a receiver at the head of the queue is processed
C40_OrphanIsProcessed ==
    (worker = "running" /\ queue # <<>> /\ Head(queue).caller = 0) =>
       ENABLED audio_thread_main

C40_WorkerSurvivesLostReply ==
    []C40_OrphanIsProcessed /\ [][C40_UndeliveredStep]_vars

\* a StartRecording whose receiver was dropped has opened a session, and
\* the worker is running with the next command in its queue
C40_Witness ==
    /\ Processed("StartRecording")
    /\ event.caller = 0
    /\ IsOk(event.result)
    /\ active_recording # None
    /\ worker = "running"
    /\ queue # <<>>

\* ------------------------------------------------------------------------
\* Properties of the credential storage (SpecStorage)
\* ------------------------------------------------------------------------
\* no call is in progress
Quiescent == \A c \in StorageCallers : st_pc[c] = "idle"

\* what get_credential returns for key when its load succeeds
Lookup(key) == IF cache[key] # None THEN cache[key] ELSE stored[key]

\* between calls: the cache holds nothing that differs from the file, and
\* get_credential finds the value of the last completed set, or nothing
\* after a completed delete
Consistent ==
    \A key \in CredentialKeys :
       /\ cache[key] # None => cache[key] = stored[key]
       /\ Lookup(key) = latest[key]

\* C39: for every sequence of set_credential / delete_credential /
\* get_credential / has_credential calls, including calls that overlap in
\* time on different keys, get_credential(k) returns the value of the last
\* completed set_credential(k, v) not followed by a delete, and the cache
\* never holds a key or value that differs from the stored file; when the
\* file save fails the cache is left unchanged.
C39_CacheMatchesFile ==
    (Quiescent /\ ~torn) => Consistent

\* the same for calls that do not overlap
C39_ConsistentWhenSerial ==
    (Quiescent /\ ~torn /\ ~overlapped) => Consistent

\* a failed save returns its error and leaves the cache as it was
C39_FailedSaveStep ==
    \A c \in StorageCallers :
       (st_pc[c] = "saving" /\ st_pc'[c] = "idle") =>
          /\ IsErr(st_event'.result)
          /\ cache' = cache
          /\ latest' = latest

C39_SerialCallsConsistent ==
    []C39_ConsistentWhenSerial /\ [][C39_FailedSaveStep]_vars

\* serial calls: a value was set, read back from the cache, and deleted
C39_SerialWitness ==
    /\ ~overlapped
    /\ Quiescent
    /\ st_event.type = "return"
    /\ st_event.call.op = "delete"
    /\ st_event.result = Ok(Unit)
    /\ \E key \in CredentialKeys : stored[key] # None

====
